---- MODULE Spec2Model ----
(***************************************************************************)
(* Model of the Japanese word analysis core of epub_reader_backend:         *)
(*   app/services/japanese_word_parser.py  (JapaneseWordParser)            *)
(*   app/services/verb_conjugator.py       (JapaneseVerbConjugator)        *)
(* and of the layer that answers a request:                                *)
(*   app/routes/analysis.py                (analyze_text)                  *)
(*   app/services/text_analyzer.py         (TextAnalyzer)                  *)
(*   app/services/word_parser.py           (WordParser)                    *)
(*   app/utils/language_detector.py        (detect_language)               *)
(* and of the process-wide configuration and the health monitor:           *)
(*   config.py, app/routes/analysis.py     (Config, switch_provider)       *)
(*   app/services/health_monitor.py        (HealthMonitor)                 *)
(*                                                                         *)
(* A Python str is a sequence of one-character strings, so that endswith,  *)
(* `in`, slicing and indexing are computed character by character.  The    *)
(* characters are written by name: hiragana in lower case ("ka" is か,     *)
(* "xtu" is っ, "nn" is ん), katakana in upper case ("KA" is カ), kanji as *)
(* "kanji_write" (書), the characters of tag literals as "han_dan" (段).   *)
(* Ord gives each word character its code point.  A fixed message literal  *)
(* and a tag that is only compared for equality are kept as one element.   *)
(* Python's None is the empty tuple None and a present value x is Some(x). *)
(***************************************************************************)
EXTENDS Integers, Sequences, FiniteSets, TLC

VARIABLES
    call,             \* a direct invocation of one pure method: arguments, done, ret
    parser_instance,  \* module global _parser_instance
    pc,               \* position of the caller inside get_japanese_parser()/parse()
    word,             \* argument of parse()
    tokens,           \* what the tokenizer answers for word (a list of morphemes)
    original_form,    \* local of parse()
    morphology,       \* local of parse()
    dict_results,     \* local of parse()
    result,           \* value returned by parse()
    lookups,          \* words handed to jamdict.lookup during this parse(), in order
    tokenizations,    \* number of sudachi.tokenize calls during this parse()
    requests,         \* number of parse() calls started so far
    threads,          \* each thread's position inside get_japanese_parser(), its locals
    constructed,      \* number of JapaneseWordParser objects constructed so far
    overlapped,       \* history: two calls of get_japanese_parser() were ever in progress at once
    AI_PROVIDER,      \* class attribute Config.AI_PROVIDER
    api_keys,         \* the API key attributes of Config that are set
    switches,         \* number of /api/switch-provider requests answered so far
    response,         \* status of the last /api/switch-provider response
    monitor_instance, \* module global _monitor_instance
    monitors,         \* the HealthMonitor objects constructed so far: running, thread
    loops             \* the threads started so far on _monitor_loop: owner, position

raceVars == <<threads, constructed, overlapped>>

configVars == <<AI_PROVIDER, api_keys, switches, response>>

monitorVars == <<monitor_instance, monitors, loops>>

vars == <<call, parser_instance, pc, word, tokens, original_form, morphology,
          dict_results, result, lookups, tokenizations, requests, raceVars,
          configVars, monitorVars>>

pipeVars == <<parser_instance, pc, word, tokens, original_form, morphology,
              dict_results, result, lookups, tokenizations, requests, raceVars,
              configVars, monitorVars>>

----------------------------------------------------------------------------
(* Bounds *)

\* number of suffix pieces appended to a stem when enumerating surfaces
MaxChunks == 2

\* number of parse() calls made on the process-wide parser
MaxRequests == 2

\* number of get_japanese_parser() calls each thread makes
MaxCallsPerThread == 2

\* number of /api/switch-provider requests
MaxSwitches == 2

\* number of HealthMonitor objects constructed
MaxMonitors == 2

\* number of threads started on _monitor_loop
MaxLoops == 3

----------------------------------------------------------------------------
(* Python values *)

None == <<>>
Some(x) == <<x>>
IsNone(o) == o = <<>>
Get(o) == o[1]

\* str.endswith
EndsWith(s, suf) ==
    /\ Len(suf) <= Len(s)
    /\ SubSeq(s, Len(s) - Len(suf) + 1, Len(s)) = suf

\* sub in s
Contains(s, sub) ==
    \E i \in 1..(Len(s) - Len(sub) + 1) : SubSeq(s, i, i + Len(sub) - 1) = sub

\* s[:-n]
DropLast(s, n) == SubSeq(s, 1, Len(s) - n)

\* sep.join(parts)
RECURSIVE Join(_, _)
Join(parts, sep) ==
    IF Len(parts) = 0 THEN <<>>
    ELSE IF Len(parts) = 1 THEN parts[1]
    ELSE parts[1] \o sep \o Join(Tail(parts), sep)

\* s[:n]
Take(s, n) == SubSeq(s, 1, IF n < Len(s) THEN n ELSE Len(s))

----------------------------------------------------------------------------
(* verb_conjugator.py *)

\* godan_map whose う row has あ, not わ, as its a-variant (買う -> 買あない)
godan_map_mut ==
    [e \in {"u", "ku", "gu", "su", "tu", "nu", "bu", "mu", "ru"} |->
        CASE e = "u" -> [a |-> "a", i |-> "i", u |-> "u", e |-> "e", o |-> "o"]
          [] e = "ku" -> [a |-> "ka", i |-> "ki", u |-> "ku", e |-> "ke", o |-> "ko"]
          [] e = "gu" -> [a |-> "ga", i |-> "gi", u |-> "gu", e |-> "ge", o |-> "go"]
          [] e = "su" -> [a |-> "sa", i |-> "si", u |-> "su", e |-> "se", o |-> "so"]
          [] e = "tu" -> [a |-> "ta", i |-> "ti", u |-> "tu", e |-> "te", o |-> "to"]
          [] e = "nu" -> [a |-> "na", i |-> "ni", u |-> "nu", e |-> "ne", o |-> "no"]
          [] e = "bu" -> [a |-> "ba", i |-> "bi", u |-> "bu", e |-> "be", o |-> "bo"]
          [] e = "mu" -> [a |-> "ma", i |-> "mi", u |-> "mu", e |-> "me", o |-> "mo"]
          [] e = "ru" -> [a |-> "ra", i |-> "ri", u |-> "ru", e |-> "re", o |-> "ro"]]

godan_map ==
    [e \in {"u", "ku", "gu", "su", "tu", "nu", "bu", "mu", "ru"} |->
        CASE e = "u" -> [a |-> "wa", i |-> "i", u |-> "u", e |-> "e", o |-> "o"]
          [] e = "ku" -> [a |-> "ka", i |-> "ki", u |-> "ku", e |-> "ke", o |-> "ko"]
          [] e = "gu" -> [a |-> "ga", i |-> "gi", u |-> "gu", e |-> "ge", o |-> "go"]
          [] e = "su" -> [a |-> "sa", i |-> "si", u |-> "su", e |-> "se", o |-> "so"]
          [] e = "tu" -> [a |-> "ta", i |-> "ti", u |-> "tu", e |-> "te", o |-> "to"]
          [] e = "nu" -> [a |-> "na", i |-> "ni", u |-> "nu", e |-> "ne", o |-> "no"]
          [] e = "bu" -> [a |-> "ba", i |-> "bi", u |-> "bu", e |-> "be", o |-> "bo"]
          [] e = "mu" -> [a |-> "ma", i |-> "mi", u |-> "mu", e |-> "me", o |-> "mo"]
          [] e = "ru" -> [a |-> "ra", i |-> "ri", u |-> "ru", e |-> "re", o |-> "ro"]]

\* te_ta_rules with く given the ending of う/つ/る (書く -> 書って)
te_ta_rules_mut ==
    [e \in {"ku", "gu", "su", "u", "tu", "ru", "nu", "bu", "mu"} |->
        CASE e = "gu" -> <<<<"i", "de">>, <<"i", "da">>>>
          [] e = "su" -> <<<<"si", "te">>, <<"si", "ta">>>>
          [] e \in {"ku", "u", "tu", "ru"} -> <<<<"xtu", "te">>, <<"xtu", "ta">>>>
          [] e \in {"nu", "bu", "mu"} -> <<<<"nn", "de">>, <<"nn", "da">>>>]

te_ta_rules ==
    [e \in {"ku", "gu", "su", "u", "tu", "ru", "nu", "bu", "mu"} |->
        CASE e = "ku" -> <<<<"i", "te">>, <<"i", "ta">>>>
          [] e = "gu" -> <<<<"i", "de">>, <<"i", "da">>>>
          [] e = "su" -> <<<<"si", "te">>, <<"si", "ta">>>>
          [] e \in {"u", "tu", "ru"} -> <<<<"xtu", "te">>, <<"xtu", "ta">>>>
          [] e \in {"nu", "bu", "mu"} -> <<<<"nn", "de">>, <<"nn", "da">>>>]

\* verb[-1] raises IndexError on the empty string
conjugate_godan_raises(verb) == Len(verb) = 0

conjugate_godan(verb, verb_type) ==
    LET stem == DropLast(verb, 1)
        ending == verb[Len(verb)]
        changes == IF ending \in DOMAIN godan_map THEN godan_map[ending]
                   ELSE godan_map["ru"]
        te_ta == IF ending \in DOMAIN te_ta_rules THEN te_ta_rules[ending]
                 ELSE <<<<"xtu", "te">>, <<"xtu", "ta">>>>
        te_ending == te_ta[1]
        ta_ending == te_ta[2]
    IN  [dictionary_form |-> verb,
         masu_form |-> stem \o <<changes.i>> \o <<"ma", "su">>,
         te_form |-> stem \o te_ending,
         ta_form |-> stem \o ta_ending,
         nai_form |-> stem \o <<changes.a>> \o <<"na", "i">>,
         nakatta_form |-> stem \o <<changes.a>> \o <<"na", "ka", "xtu", "ta">>,
         ba_form |-> stem \o <<changes.e>> \o <<"ba">>,
         command_form |-> stem \o <<changes.e>>,
         volitional_form |-> stem \o <<changes.o>> \o <<"u">>,
         passive_form |-> stem \o <<changes.a>> \o <<"re", "ru">>,
         causative_form |-> stem \o <<changes.a>> \o <<"se", "ru">>,
         potential_form |-> stem \o <<changes.e>> \o <<"ru">>,
         causative_passive_form |-> stem \o <<changes.a>> \o <<"se", "ra", "re", "ru">>]

conjugate_ichidan(verb) ==
    LET stem == DropLast(verb, 1)
    IN  [dictionary_form |-> verb,
         masu_form |-> stem \o <<"ma", "su">>,
         te_form |-> stem \o <<"te">>,
         ta_form |-> stem \o <<"ta">>,
         nai_form |-> stem \o <<"na", "i">>,
         nakatta_form |-> stem \o <<"na", "ka", "xtu", "ta">>,
         ba_form |-> stem \o <<"re", "ba">>,
         command_form |-> stem \o <<"ro">>,
         volitional_form |-> stem \o <<"yo", "u">>,
         passive_form |-> stem \o <<"ra", "re", "ru">>,
         causative_form |-> stem \o <<"sa", "se", "ru">>,
         potential_form |-> stem \o <<"ra", "re", "ru">>,
         causative_passive_form |-> stem \o <<"sa", "se", "ra", "re", "ru">>]

conjugate_suru(verb) ==
    LET stem == IF verb = <<"su", "ru">> THEN <<>> ELSE DropLast(verb, 2)
    IN  [dictionary_form |-> verb,
         masu_form |-> stem \o <<"si", "ma", "su">>,
         te_form |-> stem \o <<"si", "te">>,
         ta_form |-> stem \o <<"si", "ta">>,
         nai_form |-> stem \o <<"si", "na", "i">>,
         nakatta_form |-> stem \o <<"si", "na", "ka", "xtu", "ta">>,
         ba_form |-> stem \o <<"su", "re", "ba">>,
         command_form |-> stem \o <<"si", "ro">>,
         volitional_form |-> stem \o <<"si", "yo", "u">>,
         passive_form |-> stem \o <<"sa", "re", "ru">>,
         causative_form |-> stem \o <<"sa", "se", "ru">>,
         potential_form |-> stem \o <<"de", "ki", "ru">>,
         causative_passive_form |-> stem \o <<"sa", "se", "ra", "re", "ru">>]

conjugate_kuru(verb) ==
    [dictionary_form |-> <<"kanji_come", "ru", "(", "ku", "ru", ")">>,
     masu_form |-> <<"kanji_come", "ma", "su", "(", "ki", "ma", "su", ")">>,
     te_form |-> <<"kanji_come", "te", "(", "ki", "te", ")">>,
     ta_form |-> <<"kanji_come", "ta", "(", "ki", "ta", ")">>,
     nai_form |-> <<"kanji_come", "na", "i", "(", "ko", "na", "i", ")">>,
     nakatta_form |-> <<"kanji_come", "na", "ka", "xtu", "ta", "(", "ko", "na", "ka", "xtu", "ta", ")">>,
     ba_form |-> <<"kanji_come", "re", "ba", "(", "ku", "re", "ba", ")">>,
     command_form |-> <<"kanji_come", "i", "(", "ko", "i", ")">>,
     volitional_form |-> <<"kanji_come", "yo", "u", "(", "ko", "yo", "u", ")">>,
     passive_form |-> <<"kanji_come", "ra", "re", "ru", "(", "ko", "ra", "re", "ru", ")">>,
     causative_form |-> <<"kanji_come", "sa", "se", "ru", "(", "ko", "sa", "se", "ru", ")">>,
     potential_form |-> <<"kanji_come", "ra", "re", "ru", "(", "ko", "ra", "re", "ru", ")">>,
     causative_passive_form |->
        <<"kanji_come", "sa", "se", "ra", "re", "ru", "(", "ko", "sa", "se", "ra", "re", "ru", ")">>]

\* the sentinel of _conjugate_default
Placeholder == <<"(verb type must be specified)">>   \* （需要指定动词类型）

\* _conjugate_default that computes the te-form as for an ichidan verb
conjugate_default_mut(verb) ==
    [dictionary_form |-> verb,
     masu_form |-> Placeholder,
     te_form |-> DropLast(verb, 1) \o <<"te">>,
     ta_form |-> Placeholder,
     nai_form |-> Placeholder]

conjugate_default(verb) ==
    [dictionary_form |-> verb,
     masu_form |-> Placeholder,
     te_form |-> Placeholder,
     ta_form |-> Placeholder,
     nai_form |-> Placeholder]

\* the class markers conjugate() looks for in verb_type
MarkGodan == <<"han_go", "han_dan">>
MarkIchidan == <<"han_ichi", "han_dan">>
MarkSuru == <<"SA", "han_gyou", "han_hen", "han_kaku">>
MarkKuru == <<"KA", "han_gyou", "han_hen", "han_kaku">>

\* conjugate without the カ行変格 branch
conjugate_mut(verb, verb_type) ==
    IF Contains(verb_type, MarkGodan) THEN conjugate_godan(verb, verb_type)
    ELSE IF Contains(verb_type, MarkIchidan) THEN conjugate_ichidan(verb)
    ELSE IF Contains(verb_type, MarkSuru) THEN conjugate_suru(verb)
    ELSE conjugate_default(verb)

conjugate(verb, verb_type) ==
    IF Contains(verb_type, MarkGodan) THEN conjugate_godan(verb, verb_type)
    ELSE IF Contains(verb_type, MarkIchidan) THEN
        IF Contains(verb_type, <<"han_kami", "han_ichi", "han_dan">>) \/ Contains(verb_type, <<"han_shimo", "han_ichi", "han_dan">>)
        THEN conjugate_ichidan(verb)
        ELSE conjugate_ichidan(verb)
    ELSE IF Contains(verb_type, MarkSuru) THEN conjugate_suru(verb)
    ELSE IF Contains(verb_type, MarkKuru) THEN conjugate_kuru(verb)
    ELSE conjugate_default(verb)

\* whether conjugate(verb, verb_type) raises instead of returning
conjugate_raises(verb, verb_type) ==
    Contains(verb_type, MarkGodan) /\ conjugate_godan_raises(verb)

\* keys of get_conjugation_explanations(): the canonical form names
get_conjugation_explanations ==
    {"dictionary_form", "masu_form", "te_form", "ta_form", "nai_form",
     "nakatta_form", "ba_form", "command_form", "volitional_form",
     "passive_form", "causative_form", "potential_form", "causative_passive_form"}

----------------------------------------------------------------------------
(* japanese_word_parser.py: characters *)

\* ord(char) for the characters words and readings are made of
Ord ==
    "a"                :> 12354 @@
    "i"                :> 12356 @@
    "u"                :> 12358 @@
    "e"                :> 12360 @@
    "o"                :> 12362 @@
    "ka"               :> 12363 @@
    "ga"               :> 12364 @@
    "ki"               :> 12365 @@
    "gi"               :> 12366 @@
    "ku"               :> 12367 @@
    "gu"               :> 12368 @@
    "ke"               :> 12369 @@
    "ge"               :> 12370 @@
    "ko"               :> 12371 @@
    "go"               :> 12372 @@
    "sa"               :> 12373 @@
    "si"               :> 12375 @@
    "su"               :> 12377 @@
    "se"               :> 12379 @@
    "so"               :> 12381 @@
    "ta"               :> 12383 @@
    "da"               :> 12384 @@
    "ti"               :> 12385 @@
    "xtu"              :> 12387 @@
    "tu"               :> 12388 @@
    "te"               :> 12390 @@
    "de"               :> 12391 @@
    "to"               :> 12392 @@
    "do"               :> 12393 @@
    "na"               :> 12394 @@
    "ni"               :> 12395 @@
    "nu"               :> 12396 @@
    "ne"               :> 12397 @@
    "no"               :> 12398 @@
    "ha"               :> 12399 @@
    "ba"               :> 12400 @@
    "hi"               :> 12402 @@
    "bi"               :> 12403 @@
    "bu"               :> 12406 @@
    "he"               :> 12408 @@
    "be"               :> 12409 @@
    "ho"               :> 12411 @@
    "bo"               :> 12412 @@
    "ma"               :> 12414 @@
    "mi"               :> 12415 @@
    "mu"               :> 12416 @@
    "me"               :> 12417 @@
    "mo"               :> 12418 @@
    "ya"               :> 12420 @@
    "xyo"              :> 12423 @@
    "yo"               :> 12424 @@
    "ra"               :> 12425 @@
    "ri"               :> 12426 @@
    "ru"               :> 12427 @@
    "re"               :> 12428 @@
    "ro"               :> 12429 @@
    "wa"               :> 12431 @@
    "nn"               :> 12435 @@
    "I"                :> 12452 @@
    "E"                :> 12456 @@
    "O"                :> 12458 @@
    "KA"               :> 12459 @@
    "KU"               :> 12463 @@
    "SA"               :> 12469 @@
    "SI"               :> 12471 @@
    "SU"               :> 12473 @@
    "TA"               :> 12479 @@
    "TE"               :> 12486 @@
    "TO"               :> 12488 @@
    "DO"               :> 12489 @@
    "NA"               :> 12490 @@
    "NE"               :> 12493 @@
    "HA"               :> 12495 @@
    "BA"               :> 12496 @@
    "BE"               :> 12505 @@
    "HO"               :> 12507 @@
    "MA"               :> 12510 @@
    "MI"               :> 12511 @@
    "MU"               :> 12512 @@
    "YA"               :> 12516 @@
    "XYO"              :> 12519 @@
    "YO"               :> 12520 @@
    "RA"               :> 12521 @@
    "RU"               :> 12523 @@
    "RE"               :> 12524 @@
    "RO"               :> 12525 @@
    "NN"               :> 12531 @@
    "kanji_sleep"      :> 23517 @@
    "kanji_return"     :> 24112 @@
    "kanji_write"      :> 26360 @@
    "kanji_book"       :> 26412 @@
    "kanji_come"       :> 26469 @@
    "kanji_wither"     :> 26543 @@
    "kanji_see"        :> 35211 @@
    "kanji_speak"      :> 35441 @@
    "kanji_read"       :> 35501 @@
    "kanji_eat"        :> 39135 @@
    "kanji_surprise"   :> 39514

\* '一' <= char <= '鿿'
IsKanji(c) == c \in DOMAIN Ord /\ 19968 <= Ord[c] /\ Ord[c] <= 40959

\* '぀' <= char <= 'ゟ'
IsHiragana(c) == c \in DOMAIN Ord /\ 12352 <= Ord[c] /\ Ord[c] <= 12447

\* 0x30A0 <= code <= 0x30FF
IsKatakana(c) == c \in DOMAIN Ord /\ 12448 <= Ord[c] /\ Ord[c] <= 12543

\* chr(code): a code point outside the table is a character the model has no
\* name for, written by its number
Chr(code) ==
    IF \E c \in DOMAIN Ord : Ord[c] = code
    THEN CHOOSE c \in DOMAIN Ord : Ord[c] = code
    ELSE ToString(code)

RECURSIVE katakana_to_hiragana(_)
katakana_to_hiragana(text) ==
    IF Len(text) = 0 THEN <<>>
    ELSE LET char == Head(text)
         IN  (IF IsKatakana(char) THEN <<Chr(Ord[char] - 96)>> ELSE <<char>>)
             \o katakana_to_hiragana(Tail(text))

\* reading_form() of the morphemes that have one ("*" means none), joined
RECURSIVE JoinReadings(_)
JoinReadings(toks) ==
    IF Len(toks) = 0 THEN <<>>
    ELSE (IF toks[1].reading_form # <<"*">> THEN toks[1].reading_form ELSE <<>>)
         \o JoinReadings(Tail(toks))

get_full_reading(toks) == katakana_to_hiragana(JoinReadings(toks))

----------------------------------------------------------------------------
(* japanese_word_parser.py: _generate_complete_reading *)

\* the while loop of lines 77-92: the reading of the kanji at position i of
\* dictionary_form, read from reading_idx (characters consumed so far) up to
\* the first hiragana that also occurs later in dictionary_form.
\* Returns <<kanji_reading, reading_idx>>.
RECURSIVE KanjiReading(_, _, _, _, _)
KanjiReading(dictionary_form, dictionary_reading, i, reading_idx, kanji_reading) ==
    IF reading_idx < Len(dictionary_reading)
    THEN LET next_char == dictionary_reading[reading_idx + 1]
             found_kana_in_dict ==
                 \E j \in (i + 1)..Len(dictionary_form) :
                     dictionary_form[j] = next_char /\ IsHiragana(next_char)
         IN  IF found_kana_in_dict
             THEN <<kanji_reading, reading_idx>>
             ELSE KanjiReading(dictionary_form, dictionary_reading, i,
                               reading_idx + 1, kanji_reading \o <<next_char>>)
    ELSE <<kanji_reading, reading_idx>>

\* the for loop of lines 72-98: kanji_to_reading as a function on the kanji met
RECURSIVE BuildKanjiMap(_, _, _, _, _)
BuildKanjiMap(dictionary_form, dictionary_reading, i, reading_idx, kanji_to_reading) ==
    IF i > Len(dictionary_form) THEN kanji_to_reading
    ELSE LET char == dictionary_form[i]
         IN  IF IsKanji(char)
             THEN LET kr == KanjiReading(dictionary_form, dictionary_reading, i,
                                         reading_idx, <<>>)
                  IN  BuildKanjiMap(dictionary_form, dictionary_reading, i + 1, kr[2],
                          [c \in DOMAIN kanji_to_reading \cup {char} |->
                              IF c = char THEN kr[1] ELSE kanji_to_reading[c]])
             ELSE IF reading_idx < Len(dictionary_reading)
                     /\ dictionary_reading[reading_idx + 1] = char
                  THEN BuildKanjiMap(dictionary_form, dictionary_reading, i + 1,
                                     reading_idx + 1, kanji_to_reading)
                  ELSE BuildKanjiMap(dictionary_form, dictionary_reading, i + 1,
                                     reading_idx, kanji_to_reading)

\* the for loop of lines 101-106
RECURSIVE ReplaceKanji(_, _)
ReplaceKanji(surface, kanji_to_reading) ==
    IF Len(surface) = 0 THEN <<>>
    ELSE LET char == Head(surface)
         IN  (IF IsKanji(char)
              THEN (IF char \in DOMAIN kanji_to_reading
                    THEN kanji_to_reading[char] ELSE <<char>>)
              ELSE <<char>>)
             \o ReplaceKanji(Tail(surface), kanji_to_reading)

\* _generate_complete_reading without the fast path of lines 65-66
generate_complete_reading_mut(surface, dictionary_form, dictionary_reading) ==
    ReplaceKanji(surface,
        BuildKanjiMap(dictionary_form, dictionary_reading, 1, 0, <<>>))

generate_complete_reading(surface, dictionary_form, dictionary_reading) ==
    IF surface = dictionary_form THEN dictionary_reading
    ELSE ReplaceKanji(surface,
             BuildKanjiMap(dictionary_form, dictionary_reading, 1, 0, <<>>))

----------------------------------------------------------------------------
(* japanese_word_parser.py: _detect_verb_form_by_ending, _is_ichidan *)

\* i_e_dan = "いきしちにひみりえけせてねへめれ"
i_e_dan == <<"i", "ki", "si", "ti", "ni", "hi", "mi", "ri", "e", "ke", "se", "te", "ne", "he", "me", "re">>

is_ichidan(dictionary_form) ==
    IF ~EndsWith(dictionary_form, <<"ru">>) THEN FALSE
    ELSE IF Len(dictionary_form) < 2 THEN FALSE
    ELSE LET prev_char == dictionary_form[Len(dictionary_form) - 1]
         IN  \E k \in 1..Len(i_e_dan) : i_e_dan[k] = prev_char

\* The tags returned by _detect_verb_form_by_ending
\*   "causative-passive:past" 使役被动形-过去   "causative-passive:te" 使役被动形-て形
\*   "causative-passive" 使役被动形             "causative:past" 使役形-过去
\*   "causative:te" 使役形-て形                 "causative" 使役形
\*   "passive:past" 被动形-过去                 "passive:te" 被动形-て形
\*   "passive" 被动形                           "potential" 可能形
\*   "dictionary(ichidan)" 原型（一段动词）     "negative:past" 否定形-过去
\*   "negative:te" 否定形-て形                  "negative" 否定形
\*   "polite:past" 敬体过去形                   "polite" 敬体形
\* 1. lines 344-350
rule_causative_passive(surface) ==
    IF EndsWith(surface, <<"sa", "se", "ra", "re", "ta">>) THEN Some("causative-passive:past")
    ELSE IF EndsWith(surface, <<"sa", "se", "ra", "re", "te">>) THEN Some("causative-passive:te")
    ELSE IF EndsWith(surface, <<"sa", "se", "ra", "re", "ru">>) THEN Some("causative-passive")
    ELSE None

\* 2. lines 352-358
rule_causative(surface) ==
    IF EndsWith(surface, <<"sa", "se", "ta">>) THEN Some("causative:past")
    ELSE IF EndsWith(surface, <<"sa", "se", "te">>) THEN Some("causative:te")
    ELSE IF EndsWith(surface, <<"sa", "se", "ru">>) THEN Some("causative")
    ELSE None

\* 3. lines 360-369
rule_rareru(surface, dictionary_form) ==
    IF EndsWith(surface, <<"ra", "re", "ta">>) THEN Some("passive:past")
    ELSE IF EndsWith(surface, <<"ra", "re", "te">>) THEN Some("passive:te")
    ELSE IF EndsWith(surface, <<"ra", "re", "ru">>) THEN
        (IF is_ichidan(dictionary_form) THEN Some("potential") ELSE Some("passive"))
    ELSE None

\* 4. lines 371-374
rule_dictionary_ichidan(surface, dictionary_form) ==
    IF surface = dictionary_form /\ EndsWith(dictionary_form, <<"re", "ru">>)
       /\ is_ichidan(dictionary_form)
    THEN Some("dictionary(ichidan)")
    ELSE None

\* 5. lines 376-382
rule_passive(surface) ==
    IF EndsWith(surface, <<"re", "ta">>) THEN Some("passive:past")
    ELSE IF EndsWith(surface, <<"re", "te">>) THEN Some("passive:te")
    ELSE IF EndsWith(surface, <<"re", "ru">>) THEN Some("passive")
    ELSE None

\* 6. lines 384-390
rule_negative(surface) ==
    IF EndsWith(surface, <<"na", "ka", "xtu", "ta">>) THEN Some("negative:past")
    ELSE IF EndsWith(surface, <<"na", "ku", "te">>) THEN Some("negative:te")
    ELSE IF EndsWith(surface, <<"na", "i">>) THEN Some("negative")
    ELSE None

\* 7. lines 392-398
rule_polite(surface) ==
    IF EndsWith(surface, <<"ma", "se", "nn", "de", "si", "ta">>) THEN Some("negative:past")
    ELSE IF EndsWith(surface, <<"ma", "si", "ta">>) THEN Some("polite:past")
    ELSE IF EndsWith(surface, <<"ma", "su">>) THEN Some("polite")
    ELSE None

\* the first of the results, in order, that is not None (each section of the
\* method returns as soon as one of its tests succeeds)
RECURSIVE FirstReturn(_)
FirstReturn(rs) ==
    IF Len(rs) = 0 THEN None
    ELSE IF ~IsNone(rs[1]) THEN rs[1]
    ELSE FirstReturn(Tail(rs))

\* _detect_verb_form_by_ending with the られる section tested first
detect_verb_form_by_ending_mut(surface, dictionary_form, pos_tags) ==
    FirstReturn(<<rule_rareru(surface, dictionary_form),
                  rule_causative_passive(surface),
                  rule_causative(surface),
                  rule_dictionary_ichidan(surface, dictionary_form),
                  rule_passive(surface),
                  rule_negative(surface),
                  rule_polite(surface)>>)

detect_verb_form_by_ending(surface, dictionary_form, pos_tags) ==
    FirstReturn(<<rule_causative_passive(surface),
                  rule_causative(surface),
                  rule_rareru(surface, dictionary_form),
                  rule_dictionary_ichidan(surface, dictionary_form),
                  rule_passive(surface),
                  rule_negative(surface),
                  rule_polite(surface)>>)

----------------------------------------------------------------------------
(* japanese_word_parser.py: morphology *)

\* The tokenizer's tags that are only compared for equality are one name each:
\*   part of speech (pos_tags[0]): "doushi" 動詞, "keiyoushi" 形容詞,
\*     "keijoushi" 形状詞, "meishi" 名詞, "fukushi" 副詞, "joshi" 助詞,
\*     "jodoushi" 助動詞
\*   conjugated form (pos_tags[5]): "shuushikei-ippan" 終止形-一般,
\*     "renyoukei-ippan" 連用形-一般, "renyoukei-sokuonbin" 連用形-促音便,
\*     "renyoukei-ionbin" 連用形-イ音便, "kateikei-ippan" 仮定形-一般,
\*     "meireikei" 命令形, "mizenkei-ippan" 未然形-一般, "rentaikei-ippan" 連体形-一般
\* pos_tags[1] (transitivity) and pos_tags[4] (conjugation type) are searched
\* for substrings and are character sequences.

classify_pos(pos_tags) ==
    IF Len(pos_tags) = 0 THEN "unknown"
    ELSE LET main_pos == pos_tags[1]
         IN  CASE main_pos = "doushi" -> "verb"
               [] main_pos = "keiyoushi" -> "i_adjective"
               [] main_pos = "keijoushi" -> "na_adjective"
               [] main_pos = "meishi" -> "noun"
               [] main_pos = "fukushi" -> "adverb"
               [] OTHER -> main_pos

\* _get_verb_type that tests for 一段 before 五段
get_verb_type_mut(pos_tags) ==
    IF Len(pos_tags) < 2 \/ pos_tags[1] # "doushi" THEN None
    ELSE LET transitivity == IF Len(pos_tags) > 1 THEN pos_tags[2] ELSE <<>>
             conjugation == IF Len(pos_tags) > 4 THEN pos_tags[5] ELSE <<>>
         IN  Some([transitivity |-> transitivity,
                   conjugation_type |-> conjugation,
                   class |->
                     IF Contains(conjugation, <<"han_ichi", "han_dan">>) THEN <<"han_ichi", "han_dan", "han_dong", "han_ci", "(", "han_ni", "han_lei", "han_dong", "han_ci", ")">>
                     ELSE IF Contains(conjugation, <<"han_go", "han_dan">>) THEN <<"han_go", "han_dan", "han_dong", "han_ci", "(", "han_ichi", "han_lei", "han_dong", "han_ci", ")">>
                     ELSE IF Contains(conjugation, <<"SA", "han_gyou", "han_hen", "han_kaku">>) THEN <<"SA", "han_bian", "han_dong", "han_ci">>
                     ELSE IF Contains(conjugation, <<"KA", "han_gyou", "han_hen", "han_kaku">>) THEN <<"KA", "han_bian", "han_dong", "han_ci">>
                     ELSE conjugation])

get_verb_type(pos_tags) ==
    IF Len(pos_tags) < 2 \/ pos_tags[1] # "doushi" THEN None
    ELSE LET transitivity == IF Len(pos_tags) > 1 THEN pos_tags[2] ELSE <<>>
             conjugation == IF Len(pos_tags) > 4 THEN pos_tags[5] ELSE <<>>
         IN  Some([transitivity |-> transitivity,
                   conjugation_type |-> conjugation,
                   class |->
                     IF Contains(conjugation, <<"han_go", "han_dan">>) THEN <<"han_go", "han_dan", "han_dong", "han_ci", "(", "han_ichi", "han_lei", "han_dong", "han_ci", ")">>
                     ELSE IF Contains(conjugation, <<"han_ichi", "han_dan">>) THEN <<"han_ichi", "han_dan", "han_dong", "han_ci", "(", "han_ni", "han_lei", "han_dong", "han_ci", ")">>
                     ELSE IF Contains(conjugation, <<"SA", "han_gyou", "han_hen", "han_kaku">>) THEN <<"SA", "han_bian", "han_dong", "han_ci">>
                     ELSE IF Contains(conjugation, <<"KA", "han_gyou", "han_hen", "han_kaku">>) THEN <<"KA", "han_bian", "han_dong", "han_ci">>
                     ELSE conjugation])

get_verb_form(pos_tags) ==
    IF Len(pos_tags) < 6 \/ pos_tags[1] # "doushi" THEN None
    ELSE Some(IF Len(pos_tags) > 5 THEN pos_tags[6] ELSE "shuushikei-ippan")

\* "".join(t.surface() for t in tokens)
RECURSIVE JoinSurfaces(_)
JoinSurfaces(toks) ==
    IF Len(toks) = 0 THEN <<>> ELSE toks[1].surface \o JoinSurfaces(Tail(toks))

\* _analyze_with_sudachi, given what tokenize() returned
analyze_with_sudachi(toks) ==
    IF Len(toks) = 0 THEN None
    ELSE LET token == toks[1]
             pos_tags == token.part_of_speech
         IN  Some([surface |-> JoinSurfaces(toks),
                   dictionary_form |-> token.dictionary_form,
                   surface_reading |-> get_full_reading(toks),
                   dictionary_reading |-> token.reading_form,
                   normalized_form |-> token.normalized_form,
                   pos |-> pos_tags,
                   pos_type |-> classify_pos(pos_tags),
                   verb_type |-> get_verb_type(pos_tags),
                   verb_form |-> get_verb_form(pos_tags)])

\* _get_original_form, given what tokenize() returned
get_original_form(w, toks) ==
    IF Len(toks) # 0 /\ toks[1].dictionary_form # w
    THEN Some(toks[1].dictionary_form)
    ELSE None

----------------------------------------------------------------------------
(* japanese_word_parser.py: lexicon *)

\* ', '.join([str(p) for p in sense.pos])
SensePos(sense) == Join(sense.pos, <<"comma_space">>)

RECURSIVE EntryMeanings(_)
EntryMeanings(senses) ==
    IF Len(senses) = 0 THEN <<>>
    ELSE <<[pos |-> SensePos(senses[1]), meanings |-> senses[1].gloss]>>
         \o EntryMeanings(Tail(senses))

RECURSIVE LookupEntries(_, _)
LookupEntries(w, found) ==
    IF Len(found) = 0 THEN <<>>
    ELSE LET entry == found[1]
         IN  <<[kanji |-> IF Len(entry.kanji_forms) # 0 THEN entry.kanji_forms[1] ELSE w,
                readings |-> entry.kana_forms,
                meanings |-> EntryMeanings(entry.senses)]>>
             \o LookupEntries(w, Tail(found))

\* _lookup_dict, given the entries jamdict.lookup(word) returned
lookup_dict(w, found) ==
    LET entries == LookupEntries(w, found)
    IN  IF Len(entries) # 0 THEN Some(entries) ELSE None

\* `not dict_results`: None or an empty list
NoResults(dr) == IsNone(dr) \/ Len(Get(dr)) = 0

----------------------------------------------------------------------------
(* japanese_word_parser.py: the unified record *)

NotFoundTranslation == <<"(word not found in the dictionary)">>   \* （词典中未找到该词）
NoGlossTranslation == <<"(no gloss)">>                            \* （无释义）

build_translation(dr) ==
    IF NoResults(dr) THEN NotFoundTranslation
    ELSE LET first_entry == Get(dr)[1]
         IN  IF Len(first_entry.meanings) # 0
             THEN Join(Take(first_entry.meanings[1].meanings, 3), <<"ideographic_comma">>)
             ELSE NoGlossTranslation

\* form_map of _translate_verb_form: the display label of a form tag
form_map ==
    "shuushikei-ippan" :> "label: dictionary form" @@       \* 原型（辞书形）
    "renyoukei-ippan" :> "label: continuative form" @@      \* 连用形
    "renyoukei-sokuonbin" :> "label: ta-form (past)" @@     \* た形（过去形）
    "kateikei-ippan" :> "label: conditional (ba-form)" @@   \* 假定形（ば形）
    "meireikei" :> "label: imperative" @@                   \* 命令形
    "mizenkei-ippan" :> "label: irrealis form" @@           \* 未然形
    "rentaikei-ippan" :> "label: attributive form" @@       \* 连体形
    "passive" :> "label: passive (ukemi)" @@                \* 被动形（受身形）
    "passive:past" :> "label: past of the passive" @@       \* 被动形的过去式
    "passive:te" :> "label: te-form of the passive" @@      \* 被动形的て形
    "causative" :> "label: causative" @@                    \* 使役形
    "causative:past" :> "label: past of the causative" @@   \* 使役形的过去式
    "causative:te" :> "label: te-form of the causative" @@  \* 使役形的て形
    "negative" :> "label: negative (nai-form)" @@           \* 否定形（ない形）
    "negative:past" :> "label: past of the negative" @@     \* 否定形的过去式
    "negative:te" :> "label: te-form of the negative" \* 否定形的て形

\* form_map.get(form, form); form may be None
translate_verb_form(form) ==
    IF IsNone(form) THEN None
    ELSE Some(IF Get(form) \in DOMAIN form_map THEN form_map[Get(form)] ELSE Get(form))

DefaultExplanation == "explanation: see a grammar book"   \* 具体用法请参考语法书

\* explanations of _explain_verb_form: it has the keys of form_map
explanations == [tag \in DOMAIN form_map |-> "explanation: " \o tag]

\* explanations.get(form, default)
explain_verb_form(form) ==
    IF ~IsNone(form) /\ Get(form) \in DOMAIN explanations
    THEN explanations[Get(form)]
    ELSE DefaultExplanation

translate_transitivity(transitivity) ==
    IF Contains(transitivity, <<"han_ji", "han_ritsu">>) THEN <<"intransitive verb">>   \* 自动词
    ELSE transitivity

\* _build_verb_conjugation; verb_type is a dict for every morphology built by
\* _analyze_with_sudachi of a verb
build_verb_conjugation(m) ==
    IF IsNone(m.verb_type) THEN [has_conjugation |-> FALSE]
    ELSE LET verb_type_info == Get(m.verb_type)
             detected_form == detect_verb_form_by_ending(m.surface, m.dictionary_form, m.pos)
             current_form == IF ~IsNone(detected_form) THEN detected_form ELSE m.verb_form
         IN  [has_conjugation |-> TRUE,
              original_form |-> m.dictionary_form \o <<"(">> \o verb_type_info.class \o <<")">>,
              current_form |-> m.surface,
              conjugation_type |-> translate_verb_form(current_form),
              reason |-> explain_verb_form(current_form),
              verb_class |-> verb_type_info.class,
              transitivity |-> translate_transitivity(verb_type_info.transitivity),
              \* try: conjugation['all_forms'] = ... except Exception: pass
              all_forms |-> IF conjugate_raises(m.dictionary_form, verb_type_info.class)
                            THEN None
                            ELSE Some(conjugate(m.dictionary_form, verb_type_info.class))]

build_vocabulary(w, morph, dr) ==
    LET reading0 ==
            IF IsNone(morph) THEN <<>>
            ELSE LET m == Get(morph)
                 IN  IF Len(m.surface_reading) # 0 THEN m.surface_reading
                     ELSE generate_complete_reading(m.surface, m.dictionary_form,
                                                    m.dictionary_reading)
        conjugation ==
            IF ~IsNone(morph) /\ Get(morph).pos_type = "verb" /\ ~IsNone(Get(morph).verb_type)
            THEN build_verb_conjugation(Get(morph))
            ELSE [has_conjugation |-> FALSE]
        first_entry == Get(dr)[1]
        reading ==
            IF ~NoResults(dr) /\ Len(reading0) = 0 /\ Len(first_entry.readings) # 0
            THEN first_entry.readings[1]
            ELSE reading0
        meaning ==
            IF ~NoResults(dr) /\ Len(first_entry.meanings) # 0
            THEN Join(Take(first_entry.meanings[1].meanings, 2), <<"fullwidth_semicolon">>)
            ELSE <<>>
    IN  <<[word |-> w, reading |-> reading, meaning |-> meaning, level |-> "N2",
           conjugation |-> conjugation]>>

NoteNotFound == <<"(warning: word not found in the dictionary)">>     \* ⚠️ 词典中未找到该词
NoteMaybe == <<"(hint: inflected word, proper noun or new word)">>   \* 💡 可能是：…
NoteOriginal == <<"(hint: looked up the dictionary form:)">>         \* 💡 已自动查询原型：

\* _build_special_notes that reports a missing entry only for an analysed word
build_special_notes_mut(morph, dr) ==
    IF NoResults(dr) /\ ~IsNone(morph) THEN <<NoteNotFound, NoteMaybe>> ELSE <<>>

build_special_notes(morph, dr) ==
    IF NoResults(dr) THEN <<NoteNotFound, NoteMaybe>> ELSE <<>>

build_unified_result(w, morph, dr) ==
    [translation |-> build_translation(dr),
     grammar_points |-> <<>>,
     vocabulary |-> build_vocabulary(w, morph, dr),
     special_notes |-> build_special_notes(morph, dr)]

----------------------------------------------------------------------------
(* Inputs *)

\* Dictionary forms with the class the sources give them: the ichidan examples
\* of _is_ichidan's docstring (食べる 見る 寝る 枯れる), the godan examples of
\* te_ta_rules (書く 話す 帰る 読む) and of _detect_verb_form_by_ending (驚かす),
\* the two irregular verbs (する 来る), and a godan verb written in kana
\* (はいる, 入る).
Verbs ==
    {[dictionary_form |-> <<"kanji_eat", "be", "ru">>, reading |-> <<"TA", "BE", "RU">>, class |-> "ichidan", conjugation |-> <<"han_shimo", "han_ichi", "han_dan", "-", "BA", "han_gyou">>],
     [dictionary_form |-> <<"kanji_see", "ru">>, reading |-> <<"MI", "RU">>, class |-> "ichidan", conjugation |-> <<"han_kami", "han_ichi", "han_dan", "-", "MA", "han_gyou">>],
     [dictionary_form |-> <<"kanji_sleep", "ru">>, reading |-> <<"NE", "RU">>, class |-> "ichidan", conjugation |-> <<"han_shimo", "han_ichi", "han_dan", "-", "NA", "han_gyou">>],
     [dictionary_form |-> <<"kanji_wither", "re", "ru">>, reading |-> <<"KA", "RE", "RU">>, class |-> "ichidan", conjugation |-> <<"han_shimo", "han_ichi", "han_dan", "-", "RA", "han_gyou">>],
     [dictionary_form |-> <<"ya", "ra", "re", "ru">>, reading |-> <<"YA", "RA", "RE", "RU">>, class |-> "ichidan", conjugation |-> <<"han_shimo", "han_ichi", "han_dan", "-", "RA", "han_gyou">>],
     [dictionary_form |-> <<"kanji_write", "ku">>, reading |-> <<"KA", "KU">>, class |-> "godan", conjugation |-> <<"han_go", "han_dan", "-", "KA", "han_gyou">>],
     [dictionary_form |-> <<"kanji_speak", "su">>, reading |-> <<"HA", "NA", "SU">>, class |-> "godan", conjugation |-> <<"han_go", "han_dan", "-", "SA", "han_gyou">>],
     [dictionary_form |-> <<"kanji_return", "ru">>, reading |-> <<"KA", "E", "RU">>, class |-> "godan", conjugation |-> <<"han_go", "han_dan", "-", "RA", "han_gyou">>],
     [dictionary_form |-> <<"ha", "i", "ru">>, reading |-> <<"HA", "I", "RU">>, class |-> "godan", conjugation |-> <<"han_go", "han_dan", "-", "RA", "han_gyou">>],
     [dictionary_form |-> <<"kanji_read", "mu">>, reading |-> <<"YO", "MU">>, class |-> "godan", conjugation |-> <<"han_go", "han_dan", "-", "MA", "han_gyou">>],
     [dictionary_form |-> <<"kanji_surprise", "ka", "su">>, reading |-> <<"O", "DO", "RO", "KA", "SU">>, class |-> "godan", conjugation |-> <<"han_go", "han_dan", "-", "SA", "han_gyou">>],
     [dictionary_form |-> <<"su", "ru">>, reading |-> <<"SU", "RU">>, class |-> "suru", conjugation |-> <<"SA", "han_gyou", "han_hen", "han_kaku">>],
     [dictionary_form |-> <<"kanji_come", "ru">>, reading |-> <<"KU", "RU">>, class |-> "kuru", conjugation |-> <<"KA", "han_gyou", "han_hen", "han_kaku">>]}

\* The pieces inflected surfaces are built from: the suffixes the detector
\* tests for and the syllables that join them to a stem.
Chunks ==
    {<<"sa", "se">>, <<"ra", "re", "ru">>, <<"ra", "re", "ta">>, <<"ra", "re", "te">>, <<"re", "ru">>, <<"re", "ta">>, <<"re", "te">>, <<"ru">>, <<"ta">>, <<"te">>,
     <<"na", "i">>, <<"na", "ka", "xtu", "ta">>, <<"na", "ku", "te">>, <<"ma", "su">>, <<"ma", "si", "ta">>, <<"ma", "se", "nn", "de", "si", "ta">>,
     <<"ka">>, <<"ma">>, <<"ra">>, <<"i">>}

RECURSIVE Tails(_)
Tails(n) ==
    IF n = 0 THEN {<<>>}
    ELSE LET shorter == Tails(n - 1)
         IN  shorter \cup {t \o c : t \in shorter, c \in Chunks}

\* the surfaces tried for dictionary form d: a non-empty prefix of d followed
\* by at most MaxChunks pieces (d itself is among them)
Surfaces(d) == {SubSeq(d, 1, k) \o t : k \in 1..Len(d), t \in Tails(MaxChunks)}

\* The class labels handed to conjugate(): what _get_verb_type emits, the
\* tokenizer's own conjugation types, and labels with no supported marker.
VerbTypes ==
    {<<"han_go", "han_dan", "han_dong", "han_ci", "(", "han_ichi", "han_lei", "han_dong", "han_ci", ")">>, <<"han_ichi", "han_dan", "han_dong", "han_ci", "(", "han_ni", "han_lei", "han_dong", "han_ci", ")">>, <<"SA", "han_bian", "han_dong", "han_ci">>, <<"KA", "han_bian", "han_dong", "han_ci">>,
     <<"han_go", "han_dan", "-", "KA", "han_gyou">>, <<"han_go", "han_dan", "-", "MA", "han_gyou">>, <<"han_kami", "han_ichi", "han_dan", "-", "MA", "han_gyou">>, <<"han_shimo", "han_ichi", "han_dan", "-", "BA", "han_gyou">>, <<"han_ichi", "han_dan">>, <<"SA", "han_gyou", "han_hen", "han_kaku">>, <<"KA", "han_gyou", "han_hen", "han_kaku">>,
     <<"han_bun", "han_go2", "han_yon", "han_dan", "-", "HA", "han_gyou">>, <<"*">>, <<>>}

\* dictionary forms handed to conjugate(): the verbs above and every stem
\* followed by one more syllable
ConjStems == {<<>>, <<"kanji_write">>, <<"kanji_eat", "be">>, <<"ka">>, <<"kanji_speak">>}
ConjEndings == {"u", "ku", "gu", "su", "tu", "nu", "bu", "mu", "ru", "i", "da"}
ConjVerbs ==
    {v.dictionary_form : v \in Verbs} \cup {s \o <<e>> : s \in ConjStems, e \in ConjEndings}
    \cup {<<"kanji_speak", "su", "ru">>}

----------------------------------------------------------------------------
(* State before any request; the direct invocations leave it alone *)

\* the threads of the server that may ask for the parser
Threads == {"t1", "t2"}

\* a thread outside get_japanese_parser(): calls made so far, the instance its
\* constructor call produced (made), the value its last call returned (held)
ThreadIdle == [pc |-> "idle", calls |-> 0, made |-> None, held |-> None]

PipeInit ==
    /\ parser_instance = None
    /\ pc = "unloaded"
    /\ word = <<>>
    /\ tokens = <<>>
    /\ original_form = None
    /\ morphology = None
    /\ dict_results = None
    /\ result = None
    /\ lookups = <<>>
    /\ tokenizations = 0
    /\ requests = 0
    /\ threads = [t \in Threads |-> ThreadIdle]
    /\ constructed = 0
    /\ overlapped = FALSE

\* Config as loaded with no environment set, before any switch request
ConfigInit ==
    /\ AI_PROVIDER = "echo"
    /\ api_keys = {}
    /\ switches = 0
    /\ response = None

\* health_monitor.py before start_monitoring(): no monitor, no thread
MonitorInit ==
    /\ monitor_instance = None
    /\ monitors = <<>>
    /\ loops = <<>>

----------------------------------------------------------------------------
(* conjugate(verb, verb_type) called directly *)

InitConj ==
    /\ \E v \in ConjVerbs, t \in VerbTypes :
          call = [fn |-> "conjugate", verb |-> v, verb_type |-> t,
                  done |-> FALSE, ret |-> None]
    /\ PipeInit
    /\ ConfigInit
    /\ MonitorInit

Conjugate ==
    /\ call.fn = "conjugate" /\ ~call.done
    /\ ~conjugate_raises(call.verb, call.verb_type)
    /\ call' = [call EXCEPT !.done = TRUE,
                            !.ret = Some(conjugate(call.verb, call.verb_type))]
    /\ UNCHANGED pipeVars

NextConj == Conjugate

SpecConj == InitConj /\ [][NextConj]_vars

----------------------------------------------------------------------------
(* _detect_verb_form_by_ending(surface, dictionary_form, pos_tags) called directly *)

InitDetect ==
    /\ \E v \in Verbs : \E s \in Surfaces(v.dictionary_form) :
          call = [fn |-> "detect", surface |-> s, verb |-> v,
                  done |-> FALSE, ret |-> None]
    /\ PipeInit
    /\ ConfigInit
    /\ MonitorInit

Detect ==
    /\ call.fn = "detect" /\ ~call.done
    /\ call' = [call EXCEPT !.done = TRUE,
                            !.ret = detect_verb_form_by_ending(
                                        call.surface, call.verb.dictionary_form, <<>>)]
    /\ UNCHANGED pipeVars

NextDetect == Detect

SpecDetect == InitDetect /\ [][NextDetect]_vars

----------------------------------------------------------------------------
(* Claims about _detect_verb_form_by_ending, under SpecDetect *)

DetectDone == call.fn = "detect" /\ call.done

\* the surface reaches section 3 of the detector: it ends in られる and in no
\* causative suffix
PlainRareru(surface) ==
    EndsWith(surface, <<"ra", "re", "ru">>) /\ ~EndsWith(surface, <<"sa", "se", "ra", "re", "ru">>)

\* C1: for an observed surface ending in られる (and not in させられる),
\* the detected form is potential (可能形) when the dictionary form is an
\* ichidan verb and passive (被动形), never potential, when it is a godan verb.
C1_RareruByVerbClass ==
    (DetectDone /\ PlainRareru(call.surface)) =>
        /\ call.verb.class = "ichidan" => call.ret = Some("potential")
        /\ call.verb.class = "godan" => call.ret = Some("passive")

\* The ordered rules of the detector as (test, tags the rule may return).
RuleMatches(n, surface, dictionary_form) ==
    CASE n = 1 -> EndsWith(surface, <<"sa", "se", "ra", "re", "ta">>)
      [] n = 2 -> EndsWith(surface, <<"sa", "se", "ra", "re", "te">>)
      [] n = 3 -> EndsWith(surface, <<"sa", "se", "ra", "re", "ru">>)
      [] n = 4 -> EndsWith(surface, <<"sa", "se", "ta">>)
      [] n = 5 -> EndsWith(surface, <<"sa", "se", "te">>)
      [] n = 6 -> EndsWith(surface, <<"sa", "se", "ru">>)
      [] n = 7 -> EndsWith(surface, <<"ra", "re", "ta">>)
      [] n = 8 -> EndsWith(surface, <<"ra", "re", "te">>)
      [] n = 9 -> EndsWith(surface, <<"ra", "re", "ru">>)
      [] n = 10 -> surface = dictionary_form /\ EndsWith(dictionary_form, <<"re", "ru">>)
                   /\ is_ichidan(dictionary_form)
      [] n = 11 -> EndsWith(surface, <<"re", "ta">>)
      [] n = 12 -> EndsWith(surface, <<"re", "te">>)
      [] n = 13 -> EndsWith(surface, <<"re", "ru">>)
      [] n = 14 -> EndsWith(surface, <<"na", "ka", "xtu", "ta">>)
      [] n = 15 -> EndsWith(surface, <<"na", "ku", "te">>)
      [] n = 16 -> EndsWith(surface, <<"na", "i">>)
      [] n = 17 -> EndsWith(surface, <<"ma", "se", "nn", "de", "si", "ta">>)
      [] n = 18 -> EndsWith(surface, <<"ma", "si", "ta">>)
      [] n = 19 -> EndsWith(surface, <<"ma", "su">>)

RuleTags(n) ==
    CASE n = 1 -> {"causative-passive:past"}
      [] n = 2 -> {"causative-passive:te"}
      [] n = 3 -> {"causative-passive"}
      [] n = 4 -> {"causative:past"}
      [] n = 5 -> {"causative:te"}
      [] n = 6 -> {"causative"}
      [] n = 7 -> {"passive:past"}
      [] n = 8 -> {"passive:te"}
      [] n = 9 -> {"passive", "potential"}
      [] n = 10 -> {"dictionary(ichidan)"}
      [] n = 11 -> {"passive:past"}
      [] n = 12 -> {"passive:te"}
      [] n = 13 -> {"passive"}
      [] n = 14 -> {"negative:past"}
      [] n = 15 -> {"negative:te"}
      [] n = 16 -> {"negative"}
      [] n = 17 -> {"negative:past"}
      [] n = 18 -> {"polite:past"}
      [] n = 19 -> {"polite"}

MatchingRules(surface, dictionary_form) ==
    {n \in 1..19 : RuleMatches(n, surface, dictionary_form)}

FirstMatchingRule(surface, dictionary_form) ==
    CHOOSE n \in MatchingRules(surface, dictionary_form) :
        \A m \in MatchingRules(surface, dictionary_form) : n <= m

CausativePassiveTags ==
    {"causative-passive:past", "causative-passive:te", "causative-passive"}

\* C2: the detected form is the tag of the first rule, in the fixed order
\* causative-passive > causative > られ-passive/potential > dictionary-form
\* ichidan guard > generic passive > negative > polite, that the surface
\* matches (no form when none matches); a surface matching both a
\* causative-passive pattern and a plain passive pattern is causative-passive.
C2_SuffixPriority ==
    DetectDone =>
        LET s == call.surface
            d == call.verb.dictionary_form
        IN  /\ IF MatchingRules(s, d) = {} THEN call.ret = None
               ELSE /\ ~IsNone(call.ret)
                    /\ Get(call.ret) \in RuleTags(FirstMatchingRule(s, d))
            /\ ((\E n \in 1..3 : RuleMatches(n, s, d)) /\ (\E n \in 7..13 : RuleMatches(n, s, d)))
                  => /\ ~IsNone(call.ret)
                     /\ Get(call.ret) \in CausativePassiveTags

\* C2 witness: 食べさせられる, which also ends in られる and れる, was classified
C2_Witness ==
    /\ DetectDone
    /\ call.surface = <<"kanji_eat", "be", "sa", "se", "ra", "re", "ru">>
    /\ call.ret = Some("causative-passive")

----------------------------------------------------------------------------
(* Claims about conjugate, under SpecConj *)

ConjDone == call.fn = "conjugate" /\ call.done

\* verb_type carries one of the four class markers conjugate() looks for
SupportedType(verb_type) ==
    \/ Contains(verb_type, MarkGodan)
    \/ Contains(verb_type, MarkIchidan)
    \/ Contains(verb_type, MarkSuru)
    \/ Contains(verb_type, MarkKuru)

\* C5: for each of the four supported classes and any dictionary form, the
\* table conjugate returns has every one of the thirteen canonical keys.
C5_TableComplete ==
    (ConjDone /\ SupportedType(call.verb_type)) =>
        /\ Cardinality(get_conjugation_explanations) = 13
        /\ DOMAIN Get(call.ret) = get_conjugation_explanations

\* C5 witness: a table was generated for the kuru-irregular class
C5_Witness ==
    /\ ConjDone
    /\ call.verb = <<"kanji_come", "ru">>
    /\ call.verb_type = <<"KA", "han_gyou", "han_hen", "han_kaku">>
    /\ Get(call.ret).potential_form = <<"kanji_come", "ra", "re", "ru", "(", "ko", "ra", "re", "ru", ")">>

\* C9 as claimed: for a class label with none of the four markers every entry
\* of the returned table is the placeholder sentinel.
C9_AllPlaceholders ==
    (ConjDone /\ ~SupportedType(call.verb_type)) =>
        \A k \in DOMAIN Get(call.ret) : Get(call.ret)[k] = Placeholder

\* C9 amended: for a class label with none of the four markers conjugate
\* returns a table whose dictionary_form entry is the verb as given and whose
\* every other entry is the placeholder sentinel.
C9_PlaceholdersExceptDictionaryForm ==
    (ConjDone /\ ~SupportedType(call.verb_type)) =>
        /\ "dictionary_form" \in DOMAIN Get(call.ret)
        /\ Get(call.ret).dictionary_form = call.verb
        /\ \A k \in DOMAIN Get(call.ret) \ {"dictionary_form"} :
              Get(call.ret)[k] = Placeholder

\* C9 witness: 書く with the unsupported label 文語四段-ハ行
C9_Witness ==
    /\ ConjDone
    /\ call.verb = <<"kanji_write", "ku">>
    /\ call.verb_type = <<"han_bun", "han_go2", "han_yon", "han_dan", "-", "HA", "han_gyou">>
    /\ Get(call.ret).te_form = Placeholder

----------------------------------------------------------------------------
(* _generate_complete_reading(surface, dictionary_form, dictionary_reading)
   called directly *)

\* the readings tried: each verb's reading as the tokenizer gives it
\* (katakana), the same in hiragana, and no reading
\* the headwords whose reading is reconstructed: the verbs, and nouns written
\* in kanji only
Headwords ==
    {[dictionary_form |-> v.dictionary_form, reading |-> v.reading] : v \in Verbs}
    \cup {[dictionary_form |-> <<"kanji_book">>, reading |-> <<"HO", "NN">>],
          [dictionary_form |-> <<"kanji_read", "kanji_write">>, reading |-> <<"DO", "KU", "SI", "XYO">>]}

Readings ==
    {h.reading : h \in Headwords} \cup {katakana_to_hiragana(h.reading) : h \in Headwords}
    \cup {<<>>}

\* the surfaces tried for a reading: the dictionary form itself, its
\* inflections by fewer pieces, and surfaces that begin with another kanji
ReadingSurfaces(d) ==
    {d} \cup {SubSeq(d, 1, k) \o t : k \in 1..Len(d), t \in Tails(MaxChunks - 1)}
    \cup {<<k>> \o t : k \in {"kanji_read", "kanji_write"}, t \in Tails(MaxChunks - 1)}

InitReading ==
    /\ \E v \in Headwords, r \in Readings : \E s \in ReadingSurfaces(v.dictionary_form) :
          call = [fn |-> "reading", surface |-> s,
                  dictionary_form |-> v.dictionary_form, dictionary_reading |-> r,
                  done |-> FALSE, ret |-> None]
    /\ PipeInit
    /\ ConfigInit
    /\ MonitorInit

GenerateReading ==
    /\ call.fn = "reading" /\ ~call.done
    /\ call' = [call EXCEPT !.done = TRUE,
                            !.ret = Some(generate_complete_reading(
                                        call.surface, call.dictionary_form,
                                        call.dictionary_reading))]
    /\ UNCHANGED pipeVars

NextReading == GenerateReading

SpecReading == InitReading /\ [][NextReading]_vars

ReadingDone == call.fn = "reading" /\ call.done

\* C7: when surface equals dictionary_form, the reconstructed reading is
\* dictionary_reading unchanged, for every dictionary form and reading.
C7_FastPath ==
    (ReadingDone /\ call.surface = call.dictionary_form) =>
        call.ret = Some(call.dictionary_reading)

\* C7 witness: 書く with its katakana reading カク, surface equal to the
\* dictionary form
C7_Witness ==
    /\ ReadingDone
    /\ call.surface = <<"kanji_write", "ku">>
    /\ call.dictionary_form = <<"kanji_write", "ku">>
    /\ call.dictionary_reading = <<"KA", "KU">>
    /\ call.ret = Some(<<"KA", "KU">>)

----------------------------------------------------------------------------
(* The adapters' answers *)

\* a morpheme as the tokenizer returns it
Morpheme(surface, dictionary_form, reading_form, part_of_speech) ==
    [surface |-> surface, dictionary_form |-> dictionary_form,
     reading_form |-> reading_form, normalized_form |-> dictionary_form,
     part_of_speech |-> part_of_speech]

VerbPos(transitivity, conjugation, form) ==
    <<"doushi", transitivity, <<"*">>, <<"*">>, conjugation, form>>

ParticleTe ==
    Morpheme(<<"te">>, <<"te">>, <<"TE">>, <<"joshi", <<"han_setsu", "han_zoku", "han_jo", "han_shi">>, <<"*">>, <<"*">>, <<"*">>, "*">>)
AuxRareru ==
    Morpheme(<<"ra", "re", "ru">>, <<"ra", "re", "ru">>, <<"RA", "RE", "RU">>,
             <<"jodoushi", <<"*">>, <<"*">>, <<"*">>, <<"han_shimo", "han_ichi", "han_dan", "-", "RA", "han_gyou">>, "shuushikei-ippan">>)
AuxNai ==
    Morpheme(<<"na", "i">>, <<"na", "i">>, <<"NA", "I">>,
             <<"jodoushi", <<"*">>, <<"*">>, <<"*">>, <<"*">>, "shuushikei-ippan">>)

\* words and what tokenize(word) answers for them: 書く and three of its
\* surfaces, 見られる, the two irregular verbs, a noun, and a word for which
\* tokenize returns no morpheme
Corpus ==
    {[word |-> <<"kanji_write", "ku">>, tokens |->
        <<Morpheme(<<"kanji_write", "ku">>, <<"kanji_write", "ku">>, <<"KA", "KU">>, VerbPos(<<"han_ichi", "han_pan">>, <<"han_go", "han_dan", "-", "KA", "han_gyou">>, "shuushikei-ippan"))>>],
     [word |-> <<"kanji_write", "i", "te">>, tokens |->
        <<Morpheme(<<"kanji_write", "i">>, <<"kanji_write", "ku">>, <<"KA", "I">>, VerbPos(<<"han_ichi", "han_pan">>, <<"han_go", "han_dan", "-", "KA", "han_gyou">>, "renyoukei-ionbin")),
          ParticleTe>>],
     [word |-> <<"kanji_write", "ka", "na", "i">>, tokens |->
        <<Morpheme(<<"kanji_write", "ka">>, <<"kanji_write", "ku">>, <<"KA", "KA">>, VerbPos(<<"han_ichi", "han_pan">>, <<"han_go", "han_dan", "-", "KA", "han_gyou">>, "mizenkei-ippan")),
          AuxNai>>],
     [word |-> <<"kanji_see", "ra", "re", "ru">>, tokens |->
        <<Morpheme(<<"kanji_see">>, <<"kanji_see", "ru">>, <<"MI">>, VerbPos(<<"han_hi", "han_ji", "han_ritsu", "han_ka", "han_nou">>, <<"han_kami", "han_ichi", "han_dan", "-", "MA", "han_gyou">>, "mizenkei-ippan")),
          AuxRareru>>],
     [word |-> <<"su", "ru">>, tokens |->
        <<Morpheme(<<"su", "ru">>, <<"su", "ru">>, <<"SU", "RU">>, VerbPos(<<"han_hi", "han_ji", "han_ritsu", "han_ka", "han_nou">>, <<"SA", "han_gyou", "han_hen", "han_kaku">>, "shuushikei-ippan"))>>],
     [word |-> <<"kanji_come", "ru">>, tokens |->
        <<Morpheme(<<"kanji_come", "ru">>, <<"kanji_come", "ru">>, <<"KU", "RU">>, VerbPos(<<"han_hi", "han_ji", "han_ritsu", "han_ka", "han_nou">>, <<"KA", "han_gyou", "han_hen", "han_kaku">>, "shuushikei-ippan"))>>],
     [word |-> <<"kanji_book">>, tokens |->
        <<Morpheme(<<"kanji_book">>, <<"kanji_book">>, <<"HO", "NN">>, <<"meishi", <<"han_fu", "han_tsuu", "han_mei", "han_shi">>, <<"han_ichi", "han_pan">>, <<"*">>, <<"*">>, "*">>)>>],
     [word |-> <<"TE", "SU", "TO">>, tokens |->
        <<Morpheme(<<"TE", "SU", "TO">>, <<"TE", "SU", "TO">>, <<"TE", "SU", "TO">>, <<"meishi", <<"han_fu", "han_tsuu", "han_mei", "han_shi">>, <<"han_ichi", "han_pan">>, <<"*">>, <<"*">>, "*">>)>>],
     [word |-> <<>>, tokens |-> <<>>]}

\* entries as jamdict.lookup returns them
EntryWithSenses ==
    [kanji_forms |-> <<<<"kanji_write", "ku">>>>,
     kana_forms |-> <<<<"ka", "ku">>>>,
     senses |-> <<[pos |-> <<<<"v5k">>, <<"vt">>>>,
                   gloss |-> <<<<"to write">>, <<"to compose">>, <<"to pen">>, <<"to draw">>>>]>>]

EntryWithoutSenses ==
    [kanji_forms |-> <<>>, kana_forms |-> <<<<"su", "ru">>>>, senses |-> <<>>]

\* a loan word: its kana form is written in katakana
EntryKatakana ==
    [kanji_forms |-> <<>>,
     kana_forms |-> <<<<"TE", "SU", "TO">>>>,
     senses |-> <<[pos |-> <<<<"n">>, <<"vs">>>>, gloss |-> <<<<"test">>>>]>>]

LexiconAnswers ==
    {<<>>, <<EntryWithSenses>>, <<EntryWithoutSenses, EntryWithSenses>>, <<EntryKatakana>>}

\* how constructing an adapter ends: a handle, ImportError, another exception
ConstructionOutcomes == {"ok", "ImportError", "error"}

----------------------------------------------------------------------------
(* japanese_word_parser.py: importing the module, get_japanese_parser, parse *)

\* `x if x else y`, `if x and ...` on an Optional[str]
Truthy(o) == ~IsNone(o) /\ Len(Get(o)) # 0

\* line 7: from sudachipy import tokenizer, dictionary
ImportModule ==
    /\ pc = "unloaded"
    /\ \E sudachipy_installed \in BOOLEAN :
          pc' = IF sudachipy_installed THEN "idle" ELSE "import_failed"
    /\ UNCHANGED <<call, raceVars, configVars, monitorVars, parser_instance, word, tokens, original_form, morphology,
                   dict_results, result, lookups, tokenizations, requests>>

\* get_japanese_parser(), with JapaneseWordParser.__init__ when the global is unset
GetParser ==
    /\ pc = "idle"
    /\ requests < MaxRequests
    /\ requests' = requests + 1
    /\ IF ~IsNone(parser_instance)
       THEN pc' = "parse" /\ UNCHANGED parser_instance
       ELSE \E jam \in ConstructionOutcomes, sud \in ConstructionOutcomes :
               IF jam = "error" \/ sud = "error"
               THEN pc' = "raised" /\ UNCHANGED parser_instance
               ELSE /\ parser_instance' = Some([jamdict |-> jam = "ok", sudachi |-> sud = "ok"])
                    /\ pc' = "parse"
    /\ UNCHANGED <<call, raceVars, configVars, monitorVars, word, tokens, original_form, morphology, dict_results, result,
                   lookups, tokenizations>>

\* parse(), line 112: original_form = self._get_original_form(word)
ParseOriginalForm ==
    /\ pc = "parse"
    /\ \E c \in Corpus, tokenize_raises \in BOOLEAN :
          /\ word' = c.word
          /\ tokens' = c.tokens
          /\ IF ~Get(parser_instance).sudachi
             THEN original_form' = None /\ tokenizations' = 0
             ELSE /\ tokenizations' = 1
                  /\ original_form' = IF tokenize_raises THEN None
                                      ELSE get_original_form(c.word, c.tokens)
    /\ pc' = "analyze"
    /\ UNCHANGED <<call, raceVars, configVars, monitorVars, parser_instance, morphology, dict_results, result, lookups, requests>>

\* parse(), line 115: morphology = self._analyze_with_sudachi(word) if self.sudachi else None
ParseAnalyze ==
    /\ pc = "analyze"
    /\ IF ~Get(parser_instance).sudachi
       THEN morphology' = None /\ UNCHANGED tokenizations
       ELSE /\ tokenizations' = tokenizations + 1
            /\ \E tokenize_raises \in BOOLEAN :
                  morphology' = IF tokenize_raises THEN None
                                ELSE analyze_with_sudachi(tokens)
    /\ pc' = "lookup"
    /\ UNCHANGED <<call, raceVars, configVars, monitorVars, parser_instance, word, tokens, original_form, dict_results, result,
                   lookups, requests>>

\* what one call of _lookup_dict(w) leaves in dict_results and lookups
LookupStep(w) ==
    IF ~Get(parser_instance).jamdict
    THEN dict_results' = None /\ UNCHANGED lookups
    ELSE /\ lookups' = Append(lookups, w)
         /\ \E found \in LexiconAnswers, lookup_raises \in BOOLEAN :
               dict_results' = IF lookup_raises THEN None ELSE lookup_dict(w, found)

\* parse() whose first lookup asks for the literal word
ParseLookup_mut ==
    /\ pc = "lookup"
    /\ LookupStep(word)
    /\ pc' = IF NoResults(dict_results') /\ Truthy(original_form)
             THEN "lookup_fallback" ELSE "build"
    /\ UNCHANGED <<call, raceVars, configVars, monitorVars, parser_instance, word, tokens, original_form, morphology,
                   result, tokenizations, requests>>

\* parse(), lines 113 and 116: the lookup of search_word
ParseLookup ==
    /\ pc = "lookup"
    /\ LookupStep(IF Truthy(original_form) THEN Get(original_form) ELSE word)
    /\ pc' = IF NoResults(dict_results') /\ Truthy(original_form)
             THEN "lookup_fallback" ELSE "build"
    /\ UNCHANGED <<call, raceVars, configVars, monitorVars, parser_instance, word, tokens, original_form, morphology, result,
                   tokenizations, requests>>

\* parse(), lines 118-119: the lookup of the literal word
ParseLookupFallback ==
    /\ pc = "lookup_fallback"
    /\ LookupStep(word)
    /\ pc' = "build"
    /\ UNCHANGED <<call, raceVars, configVars, monitorVars, parser_instance, word, tokens, original_form, morphology, result,
                   tokenizations, requests>>

\* parse(), lines 121-126
ParseBuild ==
    /\ pc = "build"
    /\ LET r == build_unified_result(word, morphology, dict_results)
       IN  result' =
             Some(IF Truthy(original_form) /\ Get(original_form) # word
                  THEN [r EXCEPT !.special_notes =
                            <<NoteOriginal \o Get(original_form)>> \o r.special_notes]
                  ELSE r)
    /\ pc' = "done"
    /\ UNCHANGED <<call, raceVars, configVars, monitorVars, parser_instance, word, tokens, original_form, morphology,
                   dict_results, lookups, tokenizations, requests>>

\* the caller has its record, or its exception, and may come again
Return ==
    /\ pc \in {"done", "raised"}
    /\ pc' = "idle"
    /\ word' = <<>>
    /\ tokens' = <<>>
    /\ original_form' = None
    /\ morphology' = None
    /\ dict_results' = None
    /\ result' = None
    /\ lookups' = <<>>
    /\ tokenizations' = 0
    /\ UNCHANGED <<call, raceVars, configVars, monitorVars, parser_instance, requests>>

Init ==
    /\ call = [fn |-> "none", done |-> FALSE, ret |-> None]
    /\ PipeInit
    /\ ConfigInit
    /\ MonitorInit

Next ==
    \/ ImportModule
    \/ GetParser
    \/ ParseOriginalForm
    \/ ParseAnalyze
    \/ ParseLookup
    \/ ParseLookupFallback
    \/ ParseBuild
    \/ Return

Spec == Init /\ [][Next]_vars

----------------------------------------------------------------------------
(* Claims about parse(), under Spec *)

Done == pc = "done"

\* the single vocabulary entry of the returned record
Vocab == Get(result).vocabulary[1]

\* parse() returned a record whose vocabulary entry carries verb conjugation
\* information for dictionary form d
VerbAnalysed(d) ==
    /\ Done
    /\ ~IsNone(morphology)
    /\ Get(morphology).dictionary_form = d
    /\ Vocab.conjugation.has_conjugation

\* what a record may show for a te-form: a te-form tag of the detector, its
\* display label, or a plain te-form name
TeFormReports ==
    {"te-form", "causative-passive:te", "causative:te", "passive:te", "negative:te",
     form_map["causative:te"], form_map["passive:te"], form_map["negative:te"]}

\* C3: for dictionary form 書く observed as 書いて, the form reported for the
\* analysis is te-form.
C3_KakuTeFormReported ==
    (VerbAnalysed(<<"kanji_write", "ku">>) /\ word = <<"kanji_write", "i", "te">>) =>
        /\ ~IsNone(Vocab.conjugation.conjugation_type)
        /\ Get(Vocab.conjugation.conjugation_type) \in TeFormReports

\* C4 as claimed: for dictionary form 書く the te-form entry of the generated
\* table equals かいて.
C4_TeFormIsKanaKaite ==
    VerbAnalysed(<<"kanji_write", "ku">>) =>
        /\ ~IsNone(Vocab.conjugation.all_forms)
        /\ Get(Vocab.conjugation.all_forms).te_form = <<"ka", "i", "te">>

\* C4 amended: for dictionary form 書く (godan) the te-form entry of the
\* generated table equals 書いて, the dictionary form's stem 書 followed by the
\* euphonic ending いて, whatever surface form was observed.
C4_TeFormIsKaite ==
    VerbAnalysed(<<"kanji_write", "ku">>) =>
        /\ ~IsNone(Vocab.conjugation.all_forms)
        /\ Get(Vocab.conjugation.all_forms).te_form = <<"kanji_write", "i", "te">>

\* C4 witness: 書く was analysed from the surface 書かない, which is not its
\* te-form, and the table was attached
C4_Witness ==
    /\ VerbAnalysed(<<"kanji_write", "ku">>)
    /\ word = <<"kanji_write", "ka", "na", "i">>
    /\ Get(Vocab.conjugation.all_forms).te_form = <<"kanji_write", "i", "te">>

\* C6: with morphology absent and lexicon entries absent the unified record
\* is built, its special_notes is non-empty and its translation is the
\* "not found" placeholder.
C6_GracefulDegradation ==
    (Done /\ IsNone(morphology) /\ IsNone(dict_results)) =>
        /\ ~IsNone(result)
        /\ Len(Get(result).special_notes) > 0
        /\ Get(result).translation = NotFoundTranslation

\* C6 witness: a record built for 書く with neither morphology nor entries
C6_Witness ==
    /\ Done
    /\ word = <<"kanji_write", "ku">>
    /\ IsNone(morphology)
    /\ IsNone(dict_results)
    /\ Get(result).special_notes = <<NoteNotFound, NoteMaybe>>

\* the table of the class whose marker the tokenizer's conjugation type carries
TableOfClass(d, conjugation) ==
    IF Contains(conjugation, MarkGodan) THEN conjugate_godan(d, conjugation)
    ELSE IF Contains(conjugation, MarkIchidan) THEN conjugate_ichidan(d)
    ELSE IF Contains(conjugation, MarkSuru) THEN conjugate_suru(d)
    ELSE conjugate_kuru(d)

\* C8: for a verb whose tokenizer conjugation type carries a supported class
\* marker, the table attached to the vocabulary entry is the one of that
\* class's rule set, never the unsupported-class table.
C8_ClassifierGeneratorAgree ==
    (/\ Done
     /\ ~IsNone(morphology)
     /\ Vocab.conjugation.has_conjugation
     /\ SupportedType(Get(Get(morphology).verb_type).conjugation_type)) =>
        /\ ~IsNone(Vocab.conjugation.all_forms)
        /\ Get(Vocab.conjugation.all_forms) =
              TableOfClass(Get(morphology).dictionary_form,
                           Get(Get(morphology).verb_type).conjugation_type)

\* the fields of the unified record
RecordFields == {"translation", "grammar_points", "vocabulary", "special_notes"}

\* C10: whatever the adapters do, obtaining the parser and calling
\* parse(word) ends with a record of the four fields and never with an
\* exception propagated to the caller.
C10_NoExceptionEscapes ==
    /\ pc \notin {"import_failed", "raised"}
    /\ Done => (~IsNone(result) /\ DOMAIN Get(result) = RecordFields)

----------------------------------------------------------------------------
(* Claims about the special notes of parse(), under Spec *)

\* the special_notes of the returned record
SpecialNotes == Get(result).special_notes

\* the tokenizer adapter or the lexicon adapter of the parser is absent
AdapterUnavailable ==
    ~Get(parser_instance).sudachi \/ ~Get(parser_instance).jamdict

\* C11: whenever the tokenizer adapter or the lexicon adapter is unavailable
\* during an analysis, the special_notes of the returned record carries a
\* note about it.  No note of the parser names an adapter, so any note at
\* all is accepted as that note here.
C11_UnavailabilityReported ==
    (Done /\ AdapterUnavailable) => Len(SpecialNotes) > 0

\* the note parse() puts first when it substituted dictionary form d
SubstitutionNote(d) == NoteOriginal \o d

\* special_notes names some substituted dictionary form
SubstitutionNoted ==
    \E i \in 1..Len(SpecialNotes) : Take(SpecialNotes[i], Len(NoteOriginal)) = NoteOriginal

\* the entries used in the record were supplied by a lookup of d: the last
\* lookup performed asked for d and its entries are the ones kept
EntriesSuppliedBy(d) ==
    /\ ~NoResults(dict_results)
    /\ Len(lookups) > 0
    /\ lookups[Len(lookups)] = d

\* C12: special_notes names a substituted dictionary form only when a
\* lexicon lookup of that dictionary form was performed and supplied the
\* entries used in the record; the note is absent when the entries came
\* from the literal word, when none were found and when the lexicon was not
\* consulted.
C12_SubstitutionNoteTruthful ==
    (Done /\ SubstitutionNoted) =>
        /\ Truthy(original_form)
        /\ SpecialNotes[1] = SubstitutionNote(Get(original_form))
        /\ EntriesSuppliedBy(Get(original_form))

----------------------------------------------------------------------------
(* language_detector.py *)

\* the characters str.strip() removes
Whitespace == {"space", "newline", "tab", "ideographic_space"}

RECURSIVE lstrip(_)
lstrip(s) == IF Len(s) > 0 /\ s[1] \in Whitespace THEN lstrip(Tail(s)) ELSE s

RECURSIVE rstrip(_)
rstrip(s) ==
    IF Len(s) > 0 /\ s[Len(s)] \in Whitespace THEN rstrip(DropLast(s, 1)) ELSE s

strip_mut(s) == s
strip(s) == rstrip(lstrip(s))

IsKana(c) == IsHiragana(c) \/ IsKatakana(c)

\* sum(1 for char in text if '\u4e00' <= char <= '\u9fff')
chinese_count(text) == Cardinality({i \in 1..Len(text) : IsKanji(text[i])})

\* sum(1 for char in text if char is in the hiragana or the katakana block)
japanese_count(text) == Cardinality({i \in 1..Len(text) : IsKana(text[i])})

\* '中文' is "zhongwen", '日文' "riwen", '英文' "yingwen", '未知' "weizhi";
\* count / total > 0.3 is compared as 10 * count > 3 * total
detect_language(text) ==
    LET total_chars == Len(text)
    IN  IF total_chars = 0 THEN "weizhi"
        ELSE IF 10 * chinese_count(text) > 3 * total_chars THEN "zhongwen"
        ELSE IF 10 * japanese_count(text) > 3 * total_chars THEN "riwen"
        ELSE "yingwen"

\* '。！？.!?;；、，,\n'
sentence_punctuation ==
    {"ideographic_full_stop", "fullwidth_exclamation", "fullwidth_question", ".", "!", "?",
     ";", "fullwidth_semicolon", "ideographic_comma", "fullwidth_comma", ",", "newline"}

is_single_word(text0) ==
    LET text == strip(text0)
    IN  IF Len(text) > 20 THEN FALSE
        ELSE IF \E i \in 1..Len(text) : text[i] \in sentence_punctuation THEN FALSE
        ELSE IF detect_language(text) = "yingwen"
                /\ ~(\E i \in 1..Len(text) : text[i] = "space") THEN TRUE
        ELSE IF detect_language(text) = "riwen" /\ Len(text) <= 10 THEN TRUE
        ELSE IF detect_language(text) = "zhongwen" /\ 1 <= Len(text) /\ Len(text) <= 6 THEN TRUE
        ELSE FALSE

----------------------------------------------------------------------------
(* word_parser.py *)

ToBeImplemented == <<"[to be implemented]">>                  \* '[待实现]'

get_japanese_readings(w) ==
    <<[type |-> "kun", reading |-> ToBeImplemented],
      [type |-> "on", reading |-> ToBeImplemented]>>

get_japanese_meanings(w) ==
    <<[definition |-> <<"(sense 1, dictionary lookup to be implemented)">>, pos |-> "noun"],
      [definition |-> <<"(sense 2)">>, pos |-> "verb"]>>

RECURSIVE get_kanji_info(_)
get_kanji_info(w) ==
    IF Len(w) = 0 THEN <<>>
    ELSE (IF IsKanji(w[1])
          THEN <<[character |-> w[1], stroke_count |-> ToBeImplemented,
                  radical |-> ToBeImplemented]>>
          ELSE <<>>) \o get_kanji_info(Tail(w))

get_chinese_meanings(w) ==
    <<[definition |-> <<"(sense 1, dictionary lookup to be implemented)">>],
      [definition |-> <<"(sense 2)">>]>>

get_character_components(w) ==
    [i \in 1..Len(w) |-> [character |-> w[i], radical |-> ToBeImplemented,
                          components |-> <<>>]]

get_english_meanings(w) ==
    <<[definition |-> <<"(sense 1, dictionary lookup to be implemented)">>, pos |-> "noun",
       example |-> <<"Example sentence...">>]>>

get_word_forms(w) ==
    [plural |-> ToBeImplemented, past_tense |-> ToBeImplemented,
     present_participle |-> ToBeImplemented]

parse_japanese(w) ==
    [word |-> w, language |-> "riwen", type |-> "japanese_word",
     readings |-> get_japanese_readings(w), meanings |-> get_japanese_meanings(w),
     kanji_info |-> get_kanji_info(w), example_sentences |-> <<>>,
     note |-> <<"(hint: integrate MeCab for a more detailed analysis)">>]

parse_chinese(w) ==
    [word |-> w, language |-> "zhongwen", type |-> "chinese_word",
     pinyin |-> <<"[pinyin to be implemented]">>, meanings |-> get_chinese_meanings(w),
     components |-> get_character_components(w), example_sentences |-> <<>>,
     note |-> <<"(hint: integrate jieba for a more detailed analysis)">>]

parse_english(w) ==
    [word |-> w, language |-> "yingwen", type |-> "english_word",
     phonetic |-> <<"[phonetic to be implemented]">>, meanings |-> get_english_meanings(w),
     word_forms |-> get_word_forms(w), example_sentences |-> <<>>,
     note |-> <<"(hint: integrate NLTK for a more detailed analysis)">>]

parse_unknown(w) ==
    [word |-> w, language |-> "weizhi", type |-> "unknown",
     note |-> <<"(the language cannot be recognised)">>]

\* WordParser.parse
word_parser_parse(w) ==
    LET language == detect_language(w)
    IN  IF language = "riwen" THEN parse_japanese(w)
        ELSE IF language = "zhongwen" THEN parse_chinese(w)
        ELSE IF language = "yingwen" THEN parse_english(w)
        ELSE parse_unknown(w)

----------------------------------------------------------------------------
(* text_analyzer.py and routes/analysis.py *)

\* what analyze_text_with_ai returns: the provider's analysis, or an error dict
AiOutcomes == {"success", "error"}

analyze_text_with_ai(text, ai) ==
    IF ai = "success"
    THEN [analysis |-> <<"(analysis of the provider)">>, status |-> "success"]
    ELSE [error |-> <<"(error of the provider)">>, status |-> "error"]

\* d.get(k)
DictGet(d, k) == IF k \in DOMAIN d THEN Some(d[k]) ELSE None

\* WordParser.parse raises nothing, so the except branch is never taken
analyze_word(text) ==
    [method |-> "word_parser", result |-> Some(word_parser_parse(text)),
     status |-> Some("success")]

analyze_sentence(text, ai) ==
    LET ai_result == analyze_text_with_ai(text, ai)
    IN  [method |-> "ai_analysis", result |-> DictGet(ai_result, "analysis"),
         status |-> DictGet(ai_result, "status")]

\* TextAnalyzer.analyze(text, force_type)
analyze(text0, force_type, ai) ==
    LET text == strip(text0)
        analysis_type ==
            IF force_type = Some("word") THEN "word"
            ELSE IF force_type = Some("sentence") THEN "sentence"
            ELSE IF is_single_word(text) THEN "word" ELSE "sentence"
        r == IF analysis_type = "word" THEN analyze_word(text)
             ELSE analyze_sentence(text, ai)
    IN  r @@ [text |-> text, analysis_type |-> analysis_type, character_count |-> Len(text)]

\* analyze_text(): the response (its timestamp left out) and what
\* analyzer.analyze returned when the route called it.  A body that is no
\* JSON object, or a text that is no string, raises inside the try block.
analyze_text(request, ai) ==
    IF ~request.json \/ request.text.kind = "other"
    THEN [status |-> 500, body |-> [error |-> <<"(server error)">>], analysis |-> None]
    ELSE
    LET text == strip(IF request.text.kind = "absent" THEN <<>> ELSE request.text.value)
        analysis_result == analyze(text, request.force_type, ai)
    IN  IF Len(text) = 0
        THEN [status |-> 400, body |-> [error |-> <<"(the text is empty)">>],
              analysis |-> None]
        ELSE IF analysis_result.status = Some("error")
        THEN [status |-> 500, body |-> [error |-> <<"(analysis failed)">>],
              analysis |-> Some(analysis_result)]
        ELSE [status |-> 200,
              body |-> [original_text |-> text,
                        analysis |-> [type |-> analysis_result.analysis_type,
                                      method |-> analysis_result.method,
                                      result |-> analysis_result.result,
                                      status |-> analysis_result.status]],
              analysis |-> Some(analysis_result)]

\* s repeated n times
RECURSIVE Repeat(_, _)
Repeat(s, n) == IF n = 0 THEN <<>> ELSE s \o Repeat(s, n - 1)

\* texts a client posts
Texts ==
    LET words == {<<"kanji_write", "ku">>, <<"kanji_write", "i", "te">>, <<"kanji_book">>, <<"TE", "SU", "TO">>, <<"kanji_eat", "be", "ra", "re", "ru">>, <<"su", "ru">>,
                  <<"h", "i">>, <<"h", "i", "space", "y", "o", "u">>,
                  Repeat(<<"a">>, 11), Repeat(<<"kanji_book">>, 7), Repeat(<<"h">>, 21)}
        pads == {<<>>, <<"space">>, <<"newline", "ideographic_space">>}
    IN  {l \o w \o r : l \in pads, r \in pads, w \in words \cup {<<>>, <<"tab">>}}
        \cup {<<"kanji_write", "ku">> \o <<"ideographic_full_stop">>, <<"kanji_book">> \o <<"ideographic_comma">> \o <<"kanji_book">>,
              <<"h", "i", "!">>}

TextValues ==
    {[kind |-> "absent"], [kind |-> "other"]} \cup {[kind |-> "str", value |-> t] : t \in Texts}

ForceTypes == {None, Some("word"), Some("sentence"), Some("paragraph")}

AnalyzeRequests ==
    {[json |-> FALSE, text |-> [kind |-> "absent"], force_type |-> None]}
    \cup {[json |-> TRUE, text |-> t, force_type |-> f] : t \in TextValues, f \in ForceTypes}

InitApi ==
    /\ \E q \in AnalyzeRequests :
          call = [fn |-> "analyze_text", request |-> q, done |-> FALSE, ret |-> None]
    /\ PipeInit
    /\ ConfigInit
    /\ MonitorInit

\* POST /api/analyze
AnalyzeText ==
    /\ call.fn = "analyze_text" /\ ~call.done
    /\ \E ai \in AiOutcomes :
          call' = [call EXCEPT !.done = TRUE, !.ret = Some(analyze_text(call.request, ai))]
    /\ UNCHANGED pipeVars

NextApi == AnalyzeText

SpecApi == InitApi /\ [][NextApi]_vars

ApiDone == call.fn = "analyze_text" /\ call.done

\* the route called analyzer.analyze and it took the word path
WordAnalysis ==
    /\ ApiDone
    /\ ~IsNone(Get(call.ret).analysis)
    /\ Get(Get(call.ret).analysis).analysis_type = "word"

\* C13: every word-type analysis handed upward by TextAnalyzer.analyze
\* (force_type 'word' or an auto-detected single word) carries as its result
\* a record with the fields translation, grammar_points, vocabulary and
\* special_notes.
C13_WordAnalysisIsUnifiedRecord ==
    WordAnalysis =>
        /\ ~IsNone(Get(Get(call.ret).analysis).result)
        /\ DOMAIN Get(Get(Get(call.ret).analysis).result) = RecordFields

\* the request carries a JSON object whose text is missing, empty or made of
\* whitespace only
EmptyText ==
    /\ call.fn = "analyze_text"
    /\ call.request.json
    /\ \/ call.request.text.kind = "absent"
       \/ /\ call.request.text.kind = "str"
          /\ \A i \in 1..Len(call.request.text.value) :
                call.request.text.value[i] \in Whitespace

\* C14: a request to /api/analyze whose text is empty or only whitespace is
\* answered with HTTP 400 and the analyzer is not invoked for it.
C14_EmptyTextRejected ==
    (ApiDone /\ EmptyText) =>
        /\ Get(call.ret).status = 400
        /\ IsNone(Get(call.ret).analysis)

\* C14 witness: a text of whitespace only was answered with 400 without an
\* analysis
C14_Witness ==
    /\ ApiDone
    /\ call.request.text.kind = "str"
    /\ call.request.text.value = <<"newline", "ideographic_space", "tab", "space">>
    /\ Get(call.ret).status = 400
    /\ IsNone(Get(call.ret).analysis)

----------------------------------------------------------------------------
(* get_japanese_parser() called from several threads.  The function is three
   separate steps of the interpreter: the test of the global, the constructor
   call, the store to the global; the return reads the global again. *)

\* line 531: _parser_instance is None
HandleUnset_mut == TRUE
HandleUnset == IsNone(parser_instance)

InitSingleton ==
    /\ call = [fn |-> "none", done |-> FALSE, ret |-> None]
    /\ parser_instance = None
    /\ pc = "idle"
    /\ word = <<>>
    /\ tokens = <<>>
    /\ original_form = None
    /\ morphology = None
    /\ dict_results = None
    /\ result = None
    /\ lookups = <<>>
    /\ tokenizations = 0
    /\ requests = 0
    /\ threads = [t \in Threads |-> ThreadIdle]
    /\ constructed = 0
    /\ overlapped = FALSE
    /\ ConfigInit
    /\ MonitorInit

parseVars == <<call, pc, word, tokens, original_form, morphology, dict_results, result,
               lookups, tokenizations, requests, configVars, monitorVars>>

\* thread t enters get_japanese_parser()
ThreadCall(t) ==
    /\ threads[t].pc = "idle"
    /\ threads[t].calls < MaxCallsPerThread
    /\ threads' = [threads EXCEPT ![t].pc = "check", ![t].calls = @ + 1]
    /\ overlapped' = (overlapped \/ \E u \in Threads \ {t} : threads[u].pc # "idle")
    /\ UNCHANGED <<parser_instance, constructed, parseVars>>

\* line 531: if _parser_instance is None
ThreadCheck(t) ==
    /\ threads[t].pc = "check"
    /\ threads' = [threads EXCEPT ![t].pc = IF HandleUnset THEN "construct" ELSE "return"]
    /\ UNCHANGED <<parser_instance, constructed, overlapped, parseVars>>

\* line 532, right-hand side: JapaneseWordParser(); an exception of an adapter
\* other than ImportError leaves the call without an instance
ThreadConstruct(t) ==
    /\ threads[t].pc = "construct"
    /\ \E jam \in ConstructionOutcomes, sud \in ConstructionOutcomes :
          IF jam = "error" \/ sud = "error"
          THEN /\ threads' = [threads EXCEPT ![t].pc = "idle"]
               /\ UNCHANGED constructed
          ELSE /\ constructed' = constructed + 1
               /\ threads' = [threads EXCEPT
                      ![t].pc = "assign",
                      ![t].made = Some([id |-> constructed + 1, jamdict |-> jam = "ok",
                                        sudachi |-> sud = "ok"])]
    /\ UNCHANGED <<parser_instance, overlapped, parseVars>>

\* line 532, the store: _parser_instance = <the new object>
ThreadAssign(t) ==
    /\ threads[t].pc = "assign"
    /\ parser_instance' = threads[t].made
    /\ threads' = [threads EXCEPT ![t].pc = "return", ![t].made = None]
    /\ UNCHANGED <<constructed, overlapped, parseVars>>

\* line 533: return _parser_instance
ThreadReturn(t) ==
    /\ threads[t].pc = "return"
    /\ threads' = [threads EXCEPT ![t].pc = "idle", ![t].held = parser_instance]
    /\ UNCHANGED <<parser_instance, constructed, overlapped, parseVars>>

NextSingleton ==
    \E t \in Threads :
        \/ ThreadCall(t)
        \/ ThreadCheck(t)
        \/ ThreadConstruct(t)
        \/ ThreadAssign(t)
        \/ ThreadReturn(t)

SpecSingleton == InitSingleton /\ [][NextSingleton]_vars

\* while no two calls have overlapped, at most one parser has been
\* constructed and every call that returned, returned that one
SequentialSingleton ==
    ~overlapped =>
        /\ constructed <= 1
        /\ \A t \in Threads :
              ~IsNone(threads[t].held) =>
                  /\ constructed = 1
                  /\ threads[t].held = parser_instance
                  /\ Get(threads[t].held).id = 1

\* C15: when calls of get_japanese_parser() do not overlap exactly one
\* JapaneseWordParser is ever constructed and every call returns it; once
\* set, the handle is never reset to None.  (That two overlapping first
\* calls can both see the handle unset and construct two instances is the
\* reachable state C15_Witness.)
C15_UnsynchronisedSingleton ==
    /\ []SequentialSingleton
    /\ [][~IsNone(parser_instance) => ~IsNone(parser_instance')]_vars

\* C15 witness: both threads saw the handle unset in their first call, two
\* instances were constructed and the two callers hold different ones
C15_Witness ==
    /\ overlapped
    /\ constructed = 2
    /\ threads["t1"].calls = 1 /\ threads["t2"].calls = 1
    /\ ~IsNone(threads["t1"].held) /\ ~IsNone(threads["t2"].held)
    /\ Get(threads["t1"].held).id # Get(threads["t2"].held).id

\* C16: after any analysis the reading of the vocabulary entry contains no
\* character of the katakana block U+30A0-U+30FF, whichever source supplied
\* it.
C16_ReadingIsHiragana ==
    Done => \A i \in 1..Len(Vocab.reading) : ~IsKatakana(Vocab.reading[i])

----------------------------------------------------------------------------
(* Claims about _generate_complete_reading, under SpecReading *)

\* d is a kanji stem of k characters followed by kana only
StemOf(d, k) ==
    /\ 1 <= k /\ k < Len(d)
    /\ \A i \in 1..k : IsKanji(d[i])
    /\ \A i \in (k + 1)..Len(d) : IsKana(d[i])

KanjiStemThenKana(d) == \E k \in 1..Len(d) : StemOf(d, k)

StemBoundary(d) == CHOOSE k \in 1..Len(d) : StemOf(d, k)

\* two kana are the same syllable, whichever script writes them
SameKana(a, b) == katakana_to_hiragana(<<a>>) = katakana_to_hiragana(<<b>>)

\* the prefix of reading r before the first character that matches the first
\* kana of d (all of r when none does)
StemReading(d, r) ==
    LET first_kana == d[StemBoundary(d) + 1]
        hits == {i \in 1..Len(r) : SameKana(r[i], first_kana)}
    IN  IF hits = {} THEN r
        ELSE SubSeq(r, 1, (CHOOSE i \in hits : \A j \in hits : i <= j) - 1)

\* the call reconstructs the reading of a headword from its own reading, in
\* katakana as the tokenizer emits it or in hiragana
OwnReading ==
    \E h \in Headwords :
        /\ h.dictionary_form = call.dictionary_form
        /\ call.dictionary_reading \in {h.reading, katakana_to_hiragana(h.reading)}

\* the surface is the kanji stem of d followed by kana
InflectedSurface(surface, d) ==
    /\ Len(surface) >= StemBoundary(d)
    /\ SubSeq(surface, 1, StemBoundary(d)) = SubSeq(d, 1, StemBoundary(d))
    /\ \A i \in (StemBoundary(d) + 1)..Len(surface) : IsKana(surface[i])

\* C17: for a dictionary form made of a kanji stem followed by kana, its
\* reading (in katakana too), and a surface of that stem that differs from
\* the dictionary form, the result is stemReading followed by the part of the surface from
\* the stem boundary on, where stemReading is the prefix of the dictionary
\* reading before the first character matching the dictionary form's first
\* kana.
C17_BoundaryAlgorithm ==
    (/\ ReadingDone
     /\ call.surface # call.dictionary_form
     /\ KanjiStemThenKana(call.dictionary_form)
     /\ InflectedSurface(call.surface, call.dictionary_form)
     /\ OwnReading) =>
        call.ret = Some(StemReading(call.dictionary_form, call.dictionary_reading)
                        \o SubSeq(call.surface, StemBoundary(call.dictionary_form) + 1,
                                  Len(call.surface)))

\* no kana boundary can be located: neither the dictionary form nor the
\* surface contains a kana, or the surface contains a kanji that the
\* dictionary form does not
NoKanaBoundary(surface, d) ==
    \/ /\ \A i \in 1..Len(d) : ~IsKana(d[i])
       /\ \A i \in 1..Len(surface) : ~IsKana(surface[i])
    \/ \E i \in 1..Len(surface) :
          /\ IsKanji(surface[i])
          /\ \A j \in 1..Len(d) : d[j] # surface[i]

\* C18: when surface differs from the dictionary form and no kana boundary
\* can be located, the result is the dictionary reading unmodified.
C18_DegradesToDictionaryReading ==
    (/\ ReadingDone
     /\ call.surface # call.dictionary_form
     /\ OwnReading
     /\ NoKanaBoundary(call.surface, call.dictionary_form)) =>
        call.ret = Some(call.dictionary_reading)

----------------------------------------------------------------------------
(* Claims about _is_ichidan and the dictionary-form guard, under SpecDetect *)

\* the syllables of the i-row and the e-row that _is_ichidan looks up
IERowSyllables == {i_e_dan[k] : k \in 1..Len(i_e_dan)}

\* the examples of ichidan verbs in the docstring of _is_ichidan
DocumentedIchidan == {<<"kanji_eat", "be", "ru">>, <<"kanji_see", "ru">>, <<"kanji_sleep", "ru">>, <<"kanji_wither", "re", "ru">>}

\* C19: _is_ichidan(d) is true exactly when d has at least two characters,
\* ends in る and the character before る belongs to the fixed set of i-row
\* and e-row syllables; the documented ichidan examples 食べる, 見る, 寝る and
\* 枯れる all satisfy it.
C19_IchidanTest ==
    DetectDone =>
        LET d == call.verb.dictionary_form
        IN  /\ is_ichidan(d) <=> /\ Len(d) >= 2
                                 /\ d[Len(d)] = "ru"
                                 /\ d[Len(d) - 1] \in IERowSyllables
            /\ d \in DocumentedIchidan => is_ichidan(d)

\* C20: a verb whose surface equals its dictionary form and whose dictionary
\* form ends in れる (in られる too) is reported as dictionary-form ichidan,
\* never as passive or potential.
C20_DictionaryFormGuard ==
    (/\ DetectDone
     /\ call.surface = call.verb.dictionary_form
     /\ EndsWith(call.verb.dictionary_form, <<"re", "ru">>)) =>
        call.ret = Some("dictionary(ichidan)")

----------------------------------------------------------------------------
(* _get_verb_type(pos_tags) and _build_vocabulary called directly on what the
   tokenizer may answer for one morpheme *)

\* conjugation types in the fifth slot of a POS tag list: those of the
\* tokenizer, a type with no class marker, no type, and types that carry two
\* class markers
ConjugationTags ==
    {<<"han_go", "han_dan", "-", "KA", "han_gyou">>, <<"han_kami", "han_ichi", "han_dan", "-", "MA", "han_gyou">>, <<"han_shimo", "han_ichi", "han_dan", "-", "BA", "han_gyou">>, <<"SA", "han_gyou", "han_hen", "han_kaku">>, <<"KA", "han_gyou", "han_hen", "han_kaku">>, <<"han_bun", "han_go2", "han_yon", "han_dan", "-", "HA", "han_gyou">>, <<"*">>, <<>>,
     <<"han_ichi", "han_dan", "han_go", "han_dan">>, <<"SA", "han_gyou", "han_hen", "han_kaku", "han_ichi", "han_dan">>, <<"KA", "han_gyou", "han_hen", "han_kaku", "SA", "han_gyou", "han_hen", "han_kaku">>}

\* POS tag lists of every length up to the tokenizer's six
PosTagLists ==
    LET full == {<<main, sub, <<"*">>, <<"*">>, c, f>> :
                    main \in {"doushi", "meishi"}, sub \in {<<"han_ichi", "han_pan">>, <<"han_hi", "han_ji", "han_ritsu", "han_ka", "han_nou">>},
                    c \in ConjugationTags, f \in {"shuushikei-ippan", "mizenkei-ippan"}}
    IN  {SubSeq(p, 1, k) : p \in full, k \in 0..6}

InitClassify ==
    /\ \/ \E p \in PosTagLists :
             call = [fn |-> "get_verb_type", pos_tags |-> p, done |-> FALSE, ret |-> None]
       \/ \E p \in PosTagLists, s \in {<<"kanji_write", "ku">>, <<"kanji_write", "ka">>, <<"kanji_write", "ka", "re", "ru">>, <<"kanji_write", "ka", "na", "i">>} :
             call = [fn |-> "build_vocabulary", pos_tags |-> p,
                     token |-> Morpheme(s, <<"kanji_write", "ku">>, <<"KA", "KU">>, p), done |-> FALSE, ret |-> None]
    /\ PipeInit
    /\ ConfigInit
    /\ MonitorInit

GetVerbType ==
    /\ call.fn = "get_verb_type" /\ ~call.done
    /\ call' = [call EXCEPT !.done = TRUE, !.ret = get_verb_type(call.pos_tags)]
    /\ UNCHANGED pipeVars

\* _analyze_with_sudachi of the one morpheme, then _build_vocabulary without
\* lexicon entries; ret is the vocabulary entry
BuildVocabulary ==
    /\ call.fn = "build_vocabulary" /\ ~call.done
    /\ call' = [call EXCEPT
                   !.done = TRUE,
                   !.ret = Some(build_vocabulary(call.token.surface,
                                                 analyze_with_sudachi(<<call.token>>),
                                                 None)[1])]
    /\ UNCHANGED pipeVars

NextClassify == GetVerbType \/ BuildVocabulary

SpecClassify == InitClassify /\ [][NextClassify]_vars

TypeDone == call.fn = "get_verb_type" /\ call.done

\* the class markers in the order of the claim, each with its label
ClassTable ==
    <<<<<<"han_go", "han_dan">>, <<"han_go", "han_dan", "han_dong", "han_ci", "(", "han_ichi", "han_lei", "han_dong", "han_ci", ")">>>>, <<<<"han_ichi", "han_dan">>, <<"han_ichi", "han_dan", "han_dong", "han_ci", "(", "han_ni", "han_lei", "han_dong", "han_ci", ")">>>>,
      <<<<"SA", "han_gyou", "han_hen", "han_kaku">>, <<"SA", "han_bian", "han_dong", "han_ci">>>>, <<<<"KA", "han_gyou", "han_hen", "han_kaku">>, <<"KA", "han_bian", "han_dong", "han_ci">>>>>>

\* the label of the first marker of ClassTable found in conjugation tag c,
\* c itself when it carries none
FirstMarkerClass(c) ==
    LET hits == {k \in 1..Len(ClassTable) : Contains(c, ClassTable[k][1])}
    IN  IF hits = {} THEN c
        ELSE ClassTable[CHOOSE k \in hits : \A j \in hits : k <= j][2]

\* C21: _get_verb_type yields a result only when the primary POS tag is verb;
\* the class label depends on the conjugation tag alone: the label of the
\* first of the godan, ichidan, suru-irregular and kuru-irregular markers the
\* tag contains, and the raw tag when it contains none.
C21_ClassDetermination ==
    (TypeDone /\ ~IsNone(call.ret)) =>
        /\ Len(call.pos_tags) >= 1
        /\ call.pos_tags[1] = "doushi"
        /\ Get(call.ret).class =
              FirstMarkerClass(IF Len(call.pos_tags) > 4 THEN call.pos_tags[5] ELSE <<>>)

\* C21 witness: a tag with the ichidan marker before the godan marker was
\* given the godan class
C21_Witness ==
    /\ TypeDone
    /\ Len(call.pos_tags) = 6
    /\ call.pos_tags[5] = <<"han_ichi", "han_dan", "han_go", "han_dan">>
    /\ ~IsNone(call.ret)
    /\ Get(call.ret).class = <<"han_go", "han_dan", "han_dong", "han_ci", "(", "han_ichi", "han_lei", "han_dong", "han_ci", ")">>

VocabDone == call.fn = "build_vocabulary" /\ call.done

\* C22: every verb analysis has one defined detected-form value, the tag of
\* the matching suffix rule or, when no rule matches, the form tag supplied
\* by the tokenizer; the form shown is never absent, whatever the length of
\* the POS tag list.
C22_FormDefined ==
    (VocabDone /\ Get(call.ret).conjugation.has_conjugation) =>
        LET detected == detect_verb_form_by_ending(call.token.surface,
                                                   call.token.dictionary_form, call.pos_tags)
            shown == Get(call.ret).conjugation.conjugation_type
        IN  /\ ~IsNone(shown)
            /\ ~IsNone(detected) => shown = translate_verb_form(detected)
            /\ (IsNone(detected) /\ Len(call.pos_tags) >= 6) =>
                  shown = translate_verb_form(Some(call.pos_tags[6]))

----------------------------------------------------------------------------
(* Claims about the external calls of parse(), under Spec *)

\* the lookups made so far in this analysis follow the order: at most two;
\* the first asks for the dictionary form when the tokenizer supplied one
\* different from the word; a second one asks for the literal word
LookupsInOrder ==
    /\ Len(lookups) <= 2
    /\ (Len(lookups) >= 1 /\ Truthy(original_form)) => lookups[1] = Get(original_form)
    /\ Len(lookups) = 2 => lookups[2] = word

\* a second lookup is made only after a first one that returned nothing
SecondOnlyAfterEmpty ==
    (Len(lookups) = 1 /\ Len(lookups') = 2) => NoResults(dict_results)

\* C23 as claimed: the first lookup uses the dictionary form when the
\* tokenizer supplies one different from the word; a lookup of the literal
\* word follows only if the first returned nothing; with no distinct
\* dictionary form exactly one lookup is made, against the literal word.
C23_LookupOrder ==
    /\ [](LookupsInOrder /\
          ((Done /\ ~Truthy(original_form)) => lookups = <<word>>))
    /\ [][SecondOnlyAfterEmpty]_vars

\* C23 amended: when the lexicon adapter is available the lookups are as
\* claimed, and the lookup of the literal word does follow a first lookup of
\* the dictionary form that returned nothing; when the lexicon adapter is
\* unavailable no lookup is made at all.
C23_LookupOrderWithLexicon ==
    /\ [](/\ LookupsInOrder
          /\ (Done /\ Get(parser_instance).jamdict /\ ~Truthy(original_form)) =>
                lookups = <<word>>
          /\ (Done /\ Get(parser_instance).jamdict /\ Truthy(original_form)) =>
                /\ Len(lookups) >= 1
                /\ Len(lookups) = 1 => ~NoResults(dict_results)
          /\ (Done /\ ~Get(parser_instance).jamdict) => lookups = <<>>)
    /\ [][SecondOnlyAfterEmpty]_vars

\* C23 witness: for 書いて the dictionary form 書く was looked up first and,
\* nothing found, the literal word second, which supplied entries
C23_Witness ==
    /\ Done
    /\ word = <<"kanji_write", "i", "te">>
    /\ lookups = <<<<"kanji_write", "ku">>, <<"kanji_write", "i", "te">>>>
    /\ ~NoResults(dict_results)

\* C24: over the whole of parse(word) an analysis makes at most two external
\* calls, one of the tokenizer and one of the lexicon.
C24_AtMostTwoExternalCalls ==
    /\ tokenizations <= 1
    /\ Len(lookups) <= 1
    /\ tokenizations + Len(lookups) <= 2

----------------------------------------------------------------------------
(* Claims about the godan rule table, under SpecConj *)

\* the nine godan rows of the kana grid, each in the order a, i, u, e, o
\* (the う row has わ as its a-variant)
GodanRows ==
    {<<"wa", "i", "u", "e", "o">>, <<"ka", "ki", "ku", "ke", "ko">>, <<"ga", "gi", "gu", "ge", "go">>, <<"sa", "si", "su", "se", "so">>, <<"ta", "ti", "tu", "te", "to">>,
     <<"na", "ni", "nu", "ne", "no">>, <<"ba", "bi", "bu", "be", "bo">>, <<"ma", "mi", "mu", "me", "mo">>, <<"ra", "ri", "ru", "re", "ro">>}

\* the row a dictionary-form ending belongs to: the one whose u-variant it is
RowOf(ending) == CHOOSE r \in GodanRows : r[3] = ending

GodanEndings == {r[3] : r \in GodanRows}

\* the euphonic te/ta endings of a dictionary-form ending
Euphonic(ending) ==
    CASE ending = "ku" -> <<<<"i", "te">>, <<"i", "ta">>>>
      [] ending = "gu" -> <<<<"i", "de">>, <<"i", "da">>>>
      [] ending = "su" -> <<<<"si", "te">>, <<"si", "ta">>>>
      [] ending \in {"u", "tu", "ru"} -> <<<<"xtu", "te">>, <<"xtu", "ta">>>>
      [] ending \in {"nu", "bu", "mu"} -> <<<<"nn", "de">>, <<"nn", "da">>>>

\* C25: for a godan dictionary form ending in one of the nine syllables, every
\* entry of the table is the stem followed by the row variant and suffix the
\* rule table names, and te/ta are the stem followed by the euphonic endings.
C25_GodanRuleTable ==
    (/\ ConjDone
     /\ Contains(call.verb_type, MarkGodan)
     /\ call.verb[Len(call.verb)] \in GodanEndings) =>
        LET verb == call.verb
            stem == SubSeq(verb, 1, Len(verb) - 1)
            row == RowOf(verb[Len(verb)])
            a == <<row[1]>>
            i == <<row[2]>>
            e == <<row[4]>>
            o == <<row[5]>>
            t == Get(call.ret)
        IN  /\ t.dictionary_form = verb
            /\ t.masu_form = stem \o i \o <<"ma", "su">>
            /\ t.nai_form = stem \o a \o <<"na", "i">>
            /\ t.ba_form = stem \o e \o <<"ba">>
            /\ t.command_form = stem \o e
            /\ t.volitional_form = stem \o o \o <<"u">>
            /\ t.passive_form = stem \o a \o <<"re", "ru">>
            /\ t.causative_form = stem \o a \o <<"se", "ru">>
            /\ t.potential_form = stem \o e \o <<"ru">>
            /\ t.causative_passive_form = stem \o a \o <<"se", "ra", "re", "ru">>
            /\ t.te_form = stem \o Euphonic(verb[Len(verb)])[1]
            /\ t.ta_form = stem \o Euphonic(verb[Len(verb)])[2]

\* C25 witness: the table of かう was generated, with negative かわない and
\* te-form かって
C25_Witness ==
    /\ ConjDone
    /\ call.verb = <<"ka", "u">>
    /\ call.verb_type = <<"han_go", "han_dan", "-", "KA", "han_gyou">>
    /\ Get(call.ret).nai_form = <<"ka", "wa", "na", "i">>
    /\ Get(call.ret).te_form = <<"ka", "xtu", "te">>

----------------------------------------------------------------------------
(* Claims about the detector's tags, under SpecDetect *)

\* C26: every form tag the detector returns has an entry in the label table
\* and an entry in the explanation table, so it is shown neither with the raw
\* tag nor with the generic fallback explanation.
C26_TablesCoverDetector ==
    (DetectDone /\ ~IsNone(call.ret)) =>
        /\ Get(call.ret) \in DOMAIN form_map
        /\ Get(call.ret) \in DOMAIN explanations
        /\ translate_verb_form(call.ret) # call.ret
        /\ explain_verb_form(call.ret) # DefaultExplanation

\* the tags that name an inflected form
InflectedTags ==
    {"causative-passive:past", "causative-passive:te", "causative-passive",
     "causative:past", "causative:te", "causative",
     "passive:past", "passive:te", "passive", "potential",
     "negative:past", "negative:te", "negative", "polite:past", "polite"}

\* C28: whenever the observed surface equals the dictionary form the detector
\* returns no inflected-form tag.
C28_UninflectedNotInflected ==
    (DetectDone /\ call.surface = call.verb.dictionary_form) =>
        (IsNone(call.ret) \/ Get(call.ret) \notin InflectedTags)

----------------------------------------------------------------------------
(* conjugate() followed by _detect_verb_form_by_ending() on one of its entries *)

\* a godan or ichidan dictionary form with its class label; one of the three
\* voice entries of its table is to be fed back as the observed surface
InitRoundTrip ==
    /\ \E d \in {<<v.dictionary_form, v.conjugation>> : v \in {u \in Verbs : u.class \in {"godan", "ichidan"}}}
              \cup {<<st \o <<e>>, <<"han_go", "han_dan", "han_dong", "han_ci", "(", "han_ichi", "han_lei", "han_dong", "han_ci", ")">>>> : st \in ConjStems \ {<<>>}, e \in DOMAIN godan_map},
          k \in {"passive_form", "causative_form", "causative_passive_form"} :
          call = [fn |-> "round_trip", verb |-> d[1], verb_type |-> d[2], key |-> k,
                  stage |-> "start", surface |-> None, ret |-> None]
    /\ PipeInit
    /\ ConfigInit
    /\ MonitorInit

\* conjugate(verb, verb_type)[key]
GenerateSurface ==
    /\ call.fn = "round_trip" /\ call.stage = "start"
    /\ ~conjugate_raises(call.verb, call.verb_type)
    /\ call' = [call EXCEPT !.stage = "generated",
                            !.surface = Some(conjugate(call.verb, call.verb_type)[call.key])]
    /\ UNCHANGED pipeVars

\* _detect_verb_form_by_ending(surface, verb, pos_tags) on the generated entry
DetectGenerated ==
    /\ call.fn = "round_trip" /\ call.stage = "generated"
    /\ call' = [call EXCEPT !.stage = "detected",
                            !.ret = detect_verb_form_by_ending(Get(call.surface), call.verb, <<>>)]
    /\ UNCHANGED pipeVars

NextRoundTrip == GenerateSurface \/ DetectGenerated

SpecRoundTrip == InitRoundTrip /\ [][NextRoundTrip]_vars

\* the tags that name the voice of a table entry
VoiceTags(key, verb_type) ==
    CASE key = "passive_form" ->
            IF Contains(verb_type, MarkGodan) THEN {"passive"} ELSE {"passive", "potential"}
      [] key = "causative_form" -> {"causative"}
      [] key = "causative_passive_form" -> {"causative-passive"}

\* C27: the passive, causative and causative-passive entries of the table of
\* a godan or ichidan dictionary form, fed back as the observed surface, are
\* reported passive (or potential for ichidan), causative and
\* causative-passive respectively.
C27_RoundTrip ==
    (call.fn = "round_trip" /\ call.stage = "detected") =>
        /\ ~IsNone(call.ret)
        /\ Get(call.ret) \in VoiceTags(call.key, call.verb_type)

----------------------------------------------------------------------------
(* config.py and POST /api/switch-provider *)

\* AnalyzerFactory.get_available_providers(): the keys of _analyzers
get_available_providers == {"openai", "claude", "gemini", "ollama", "echo", "deepseek"}

\* the API key attributes Config.validate() looks at
KeyNames == {"OPENAI_API_KEY", "ANTHROPIC_API_KEY", "GEMINI_API_KEY"}

\* Config.validate() with Config.AI_PROVIDER = provider and the keys set
validate(provider, keys) ==
    IF provider = "openai" /\ "OPENAI_API_KEY" \notin keys THEN <<FALSE, "missing OPENAI_API_KEY">>
    ELSE IF provider = "claude" /\ "ANTHROPIC_API_KEY" \notin keys THEN <<FALSE, "missing ANTHROPIC_API_KEY">>
    ELSE IF provider = "gemini" /\ "GEMINI_API_KEY" \notin keys THEN <<FALSE, "missing GEMINI_API_KEY">>
    ELSE <<TRUE, "">>

\* str.lower() on the provider names requests carry
lower(name) ==
    CASE name = "OpenAI" -> "openai"
      [] name = "GEMINI" -> "gemini"
      [] OTHER -> name

\* switch_provider(): the status answered and the value Config.AI_PROVIDER
\* has afterwards, for a request body and the provider active before
switch_provider(request, active, keys) ==
    IF ~request.json \/ request.kind = "number"
    THEN [status |-> 500, AI_PROVIDER |-> active]     \* data.get / .lower() raises
    ELSE LET new_provider == lower(IF request.kind = "absent" THEN "" ELSE request.provider)
         IN  IF new_provider \notin get_available_providers
             THEN [status |-> 400, AI_PROVIDER |-> active]
             ELSE IF new_provider # "echo" /\ ~validate(new_provider, keys)[1]
             THEN [status |-> 400, AI_PROVIDER |-> new_provider]
             ELSE [status |-> 200, AI_PROVIDER |-> new_provider]

\* Config as loaded from the environment; no switch request answered yet
InitProvider ==
    /\ call = [fn |-> "switch_provider", done |-> FALSE, ret |-> None]
    /\ PipeInit
    /\ MonitorInit
    /\ AI_PROVIDER \in get_available_providers
    /\ api_keys \in SUBSET KeyNames
    /\ switches = 0
    /\ response = None

\* POST /api/switch-provider
SwitchProvider ==
    /\ switches < MaxSwitches
    /\ \E request \in {[json |-> j, kind |-> k, provider |-> ""] :
                          j \in BOOLEAN, k \in {"absent", "number"}}
                  \cup {[json |-> TRUE, kind |-> "str", provider |-> p] :
                          p \in get_available_providers \cup {"OpenAI", "GEMINI", "bogus", ""}} :
          LET answer == switch_provider(request, AI_PROVIDER, api_keys)
          IN  /\ AI_PROVIDER' = answer.AI_PROVIDER
              /\ response' = Some(answer.status)
    /\ switches' = switches + 1
    /\ UNCHANGED <<call, parser_instance, pc, word, tokens, original_form, morphology,
                   dict_results, result, lookups, tokenizations, requests, raceVars,
                   api_keys, monitorVars>>

NextProvider == SwitchProvider

SpecProvider == InitProvider /\ [][NextProvider]_vars

\* C29: a switch request answered with an error status has not changed the
\* active provider; the active provider changes only on a request answered
\* with 200.
C29_ErrorLeavesProvider ==
    [][(switches' = switches + 1 /\ Get(response') # 200) => AI_PROVIDER' = AI_PROVIDER]_vars

----------------------------------------------------------------------------
(* health_monitor.py: HealthMonitor, start_monitoring, stop_monitoring *)

\* HealthMonitor.start() on monitor m: the monitors and the loop threads after it
start(ms, ls, m) ==
    IF ms[m].running THEN <<ms, ls>>
    ELSE <<[ms EXCEPT ![m] = [running |-> TRUE, thread |-> Some(Len(ls) + 1)]],
           Append(ls, [owner |-> m, pc |-> "delay"])>>

\* HealthMonitor.stop() on monitor m: the flag is cleared, then join(timeout=5)
\* returns either because the thread terminated (joined) or because the five
\* seconds passed with the thread still alive
stop(ms, ls, m, joined) ==
    <<[ms EXCEPT ![m].running = FALSE],
      IF ~IsNone(ms[m].thread) /\ joined
      THEN [ls EXCEPT ![Get(ms[m].thread)].pc = "exited"]
      ELSE ls>>

\* everything but the health monitor
restVars == <<call, parser_instance, pc, word, tokens, original_form, morphology,
              dict_results, result, lookups, tokenizations, requests, raceVars, configVars>>

InitMonitor ==
    /\ call = [fn |-> "health_monitor", done |-> FALSE, ret |-> None]
    /\ PipeInit
    /\ ConfigInit
    /\ MonitorInit

\* start_monitoring()
StartMonitoring ==
    /\ IF IsNone(monitor_instance)
       THEN /\ Len(monitors) < MaxMonitors
            /\ Len(loops) < MaxLoops
            /\ LET m == Len(monitors) + 1
                   after == start(Append(monitors, [running |-> FALSE, thread |-> None]), loops, m)
               IN  /\ monitor_instance' = Some(m)
                   /\ monitors' = after[1]
                   /\ loops' = after[2]
       ELSE UNCHANGED monitorVars
    /\ UNCHANGED restVars

\* stop_monitoring()
StopMonitoring ==
    /\ IF ~IsNone(monitor_instance)
       THEN \E joined \in BOOLEAN :
               LET after == stop(monitors, loops, Get(monitor_instance), joined)
               IN  /\ monitors' = after[1]
                   /\ loops' = after[2]
                   /\ monitor_instance' = None
       ELSE UNCHANGED monitorVars
    /\ UNCHANGED restVars

\* start() called on a HealthMonitor object
MonitorStart(m) ==
    /\ monitors[m].running \/ Len(loops) < MaxLoops
    /\ LET after == start(monitors, loops, m)
       IN  monitors' = after[1] /\ loops' = after[2]
    /\ UNCHANGED <<monitor_instance, restVars>>

\* stop() called on a HealthMonitor object
MonitorStop(m) ==
    /\ \E joined \in BOOLEAN :
          LET after == stop(monitors, loops, m, joined)
          IN  monitors' = after[1] /\ loops' = after[2]
    /\ UNCHANGED <<monitor_instance, restVars>>

\* _monitor_loop: time.sleep(10) or time.sleep(self.interval) returns
LoopWake(t) ==
    /\ loops[t].pc \in {"delay", "sleep"}
    /\ loops' = [loops EXCEPT ![t].pc = "test"]
    /\ UNCHANGED <<monitor_instance, monitors, restVars>>

\* _monitor_loop: while self.running
LoopTest(t) ==
    /\ loops[t].pc = "test"
    /\ loops' = [loops EXCEPT ![t].pc = IF monitors[loops[t].owner].running
                                        THEN "check" ELSE "exited"]
    /\ UNCHANGED <<monitor_instance, monitors, restVars>>

\* _monitor_loop: self._perform_health_check(), then the thread sleeps
LoopCheck(t) ==
    /\ loops[t].pc = "check"
    /\ loops' = [loops EXCEPT ![t].pc = "sleep"]
    /\ UNCHANGED <<monitor_instance, monitors, restVars>>

NextMonitor ==
    \/ StartMonitoring
    \/ StopMonitoring
    \/ \E m \in DOMAIN monitors : MonitorStart(m)
    \/ \E m \in DOMAIN monitors : MonitorStop(m)
    \/ \E t \in DOMAIN loops : LoopWake(t)
    \/ \E t \in DOMAIN loops : LoopTest(t)
    \/ \E t \in DOMAIN loops : LoopCheck(t)

SpecMonitor == InitMonitor /\ [][NextMonitor]_vars

\* the threads of monitor m that execute _monitor_loop and have not left it
LiveLoops(m) == {t \in DOMAIN loops : loops[t].owner = m /\ loops[t].pc # "exited"}

\* C30: while a HealthMonitor is running there is never more than one thread
\* executing its _monitor_loop, whatever start() and stop() calls came before.
C30_AtMostOneLiveLoop ==
    \A m \in DOMAIN monitors :
        monitors[m].running => Cardinality(LiveLoops(m)) <= 1

====
